---- MODULE Spec2Model ----
(***************************************************************************)
(* Dental EMR tracker: the spreadsheet-to-relational pipeline.             *)
(*                                                                         *)
(* Text is modelled as a sequence of Unicode code points (integers), so    *)
(* that toHalfWidth, the regular-expression classes \d and \s, parseFloat  *)
(* and substring search are computed on characters as the code does.       *)
(* A JavaScript Set / Map is modelled as a duplicate-free sequence in      *)
(* insertion order (the iteration order of Set and Map).                   *)
(***************************************************************************)
EXTENDS Integers, Sequences, FiniteSets, TLC

VARIABLES
    ufn,        \* utils harness: name of the pure function being called
    uarg,       \* utils harness: its argument
    ures,       \* utils harness: its result
    upc,        \* utils harness: "call" before the call, "done" after
    sheet,      \* the data rows (after the header) of the surgery sheet
    insMap,     \* the InsuranceIndex: insertion-ordered Map key -> teeth
    pc,         \* parser: the function running ("implant", "bone", "done")
    rowIdx,     \* parser: the loop index i, the row about to be processed
    implantRecords, \* parseSurgeryImplant: records
    boneRecords,    \* parseSurgeryBone: records
    treatment_records,  \* table treatment_records, rows in insertion order
    implant,            \* table implant
    bone_graft,         \* table bone_graft
    lastId,             \* the AUTOINCREMENT sequence of each table
    req,                \* the uploads in flight: the locals of each handler
    query,              \* GET /api/records in flight: the locals of the query
    batch               \* the batch delete in flight: its locals

uvars == <<ufn, uarg, ures, upc>>

pvars == <<sheet, insMap, pc, rowIdx, implantRecords, boneRecords>>

dvars == <<treatment_records, implant, bone_graft, lastId, req, query, batch>>

vars ==
    <<ufn, uarg, ures, upc, sheet, insMap, pc, rowIdx, implantRecords, boneRecords,
      treatment_records, implant, bone_graft, lastId, req, query, batch>>

(***************************************************************************)
(* Characters and strings                                                  *)
(***************************************************************************)

\* The printable ASCII characters U+0020..U+007E in code order.
AsciiTable ==
    <<" ", "!", "\"", "#", "$", "%", "&", "'", "(", ")", "*", "+", ",", "-", ".", "/",
      "0", "1", "2", "3", "4", "5", "6", "7", "8", "9", ":", ";", "<", "=", ">", "?",
      "@", "A", "B", "C", "D", "E", "F", "G", "H", "I", "J", "K", "L", "M", "N", "O",
      "P", "Q", "R", "S", "T", "U", "V", "W", "X", "Y", "Z", "[", "\\", "]", "^", "_",
      "(grave)", "a", "b", "c", "d", "e", "f", "g", "h", "i", "j", "k", "l", "m", "n", "o",
      "p", "q", "r", "s", "t", "u", "v", "w", "x", "y", "z", "{", "|", "}", "~">>

\* Code point of a printable ASCII character given as a one-character string.
Code(ch) == 31 + (CHOOSE i \in 1..Len(AsciiTable) : AsciiTable[i] = ch)

\* The string (sequence of code points) spelled by a tuple of ASCII characters.
Str(chars) == [i \in 1..Len(chars) |-> Code(chars[i])]

Range(s) == {s[i] : i \in 1..Len(s)}

Min(a, b) == IF a <= b THEN a ELSE b
Max(a, b) == IF a >= b THEN a ELSE b

RECURSIVE Concat(_)
\* Concatenation of a sequence of strings.
Concat(ss) == IF ss = <<>> THEN <<>> ELSE Head(ss) \o Concat(Tail(ss))

\* The whitespace of JavaScript: what \s matches and what trim() removes.
IsSpace(c) ==
    c \in {9, 10, 11, 12, 13, 32, 160, 5760, 8232, 8233, 8239, 8287, 12288, 65279}
    \/ c \in 8192..8202

\* \d
IsDigit(c) == c \in 48..57

\* 1-based position of the first occurrence of sub in s at or after position
\* from, 0 when there is none (String.prototype.indexOf, shifted by one).
IndexFrom(s, sub, from) ==
    LET hits == {i \in from..(Len(s) - Len(sub) + 1) :
                    \A j \in 1..Len(sub) : s[i + j - 1] = sub[j]}
    IN  IF hits = {} THEN 0 ELSE CHOOSE i \in hits : \A k \in hits : i <= k

IndexOf(s, sub) == IndexFrom(s, sub, 1)

\* String.prototype.includes
Includes(s, sub) == IndexOf(s, sub) # 0

RECURSIVE Split(_, _)
\* String.prototype.split(sep) for a non-empty separator.
Split(s, sep) ==
    LET k == IndexOf(s, sep)
    IN  IF k = 0 THEN <<s>>
        ELSE <<SubSeq(s, 1, k - 1)>> \o Split(SubSeq(s, k + Len(sep), Len(s)), sep)

RECURSIVE Join(_, _)
\* Array.prototype.join(sep)
Join(ss, sep) ==
    IF ss = <<>> THEN <<>>
    ELSE IF Len(ss) = 1 THEN ss[1]
    ELSE ss[1] \o sep \o Join(Tail(ss), sep)

RECURSIVE TrimStart(_)
TrimStart(s) == IF s # <<>> /\ IsSpace(Head(s)) THEN TrimStart(Tail(s)) ELSE s

RECURSIVE TrimEnd(_)
TrimEnd(s) ==
    IF s # <<>> /\ IsSpace(s[Len(s)]) THEN TrimEnd(SubSeq(s, 1, Len(s) - 1)) ELSE s

\* String.prototype.trim
Trim(s) == TrimEnd(TrimStart(s))

\* String.prototype.replace(sub, '') with a string pattern: the first
\* occurrence only.
RemoveFirst(s, sub) ==
    LET k == IndexOf(s, sub)
    IN  IF k = 0 THEN s
        ELSE SubSeq(s, 1, k - 1) \o SubSeq(s, k + Len(sub), Len(s))

\* Set.prototype.add on an insertion-ordered Set.
SetAdd(set, x) == IF x \in Range(set) THEN set ELSE Append(set, x)

\* Set.prototype.has
SetHas(set, x) == x \in Range(set)

\* The value undefined where a string is expected (arch[-1]); no string has
\* a negative code point.
Undefined == <<-1>>

(***************************************************************************)
(* utils.ts: expandTeethRange                                              *)
(***************************************************************************)

upperArch ==
    <<Str(<<"1","8">>), Str(<<"1","7">>), Str(<<"1","6">>), Str(<<"1","5">>),
      Str(<<"1","4">>), Str(<<"1","3">>), Str(<<"1","2">>), Str(<<"1","1">>),
      Str(<<"2","1">>), Str(<<"2","2">>), Str(<<"2","3">>), Str(<<"2","4">>),
      Str(<<"2","5">>), Str(<<"2","6">>), Str(<<"2","7">>), Str(<<"2","8">>)>>

lowerArch ==
    <<Str(<<"3","8">>), Str(<<"3","7">>), Str(<<"3","6">>), Str(<<"3","5">>),
      Str(<<"3","4">>), Str(<<"3","3">>), Str(<<"3","2">>), Str(<<"3","1">>),
      Str(<<"4","1">>), Str(<<"4","2">>), Str(<<"4","3">>), Str(<<"4","4">>),
      Str(<<"4","5">>), Str(<<"4","6">>), Str(<<"4","7">>), Str(<<"4","8">>)>>

\* Array.prototype.includes
ArrIncludes(arr, x) == \E i \in 1..Len(arr) : arr[i] = x

\* Array.prototype.indexOf: 0-based, -1 when absent.
ArrIndexOf(arr, x) ==
    IF ArrIncludes(arr, x)
    THEN (CHOOSE i \in 1..Len(arr) : arr[i] = x /\ \A k \in 1..(i - 1) : arr[k] # x) - 1
    ELSE -1

\* arr[j] for a 0-based j: undefined outside the array.
ArrAt(arr, j) == IF j \in 0..(Len(arr) - 1) THEN arr[j + 1] ELSE Undefined

RECURSIVE AddSpan(_, _, _, _)
\* for (j = lo; j <= hi; j++) teethSet.add(arch[j])
AddSpan(set, arch, lo, hi) ==
    IF lo > hi THEN set ELSE AddSpan(SetAdd(set, ArrAt(arch, lo)), arch, lo + 1, hi)

\* seg.split('~').map(s => s.replace('#', '').trim())
RangeParts(seg) ==
    LET raw == Split(seg, Str(<<"~">>))
    IN  [i \in 1..Len(raw) |-> Trim(RemoveFirst(raw[i], Str(<<"#">>)))]

\* ExpandRangeSegment with the loop run from startIdx up to endIdx, without
\* min/max: a descending range adds nothing.
ExpandRangeSegmentNoSwap(set, seg) ==
    LET parts == RangeParts(seg)
        arch  == IF ArrIncludes(upperArch, parts[1]) THEN upperArch
                 ELSE IF ArrIncludes(lowerArch, parts[1]) THEN lowerArch
                 ELSE <<>>
    IN  IF arch = <<>> THEN set
        ELSE AddSpan(set, arch, ArrIndexOf(arch, parts[1]), ArrIndexOf(arch, parts[2]))

\* The body of segments.forEach for a range segment.
ExpandRangeSegment(set, seg) ==
    LET parts == RangeParts(seg)
        arch  == IF ArrIncludes(upperArch, parts[1]) THEN upperArch
                 ELSE IF ArrIncludes(lowerArch, parts[1]) THEN lowerArch
                 ELSE <<>>
    IN  IF arch = <<>> THEN set
        ELSE LET startIdx == ArrIndexOf(arch, parts[1])
                 endIdx   == ArrIndexOf(arch, parts[2])
             IN  AddSpan(set, arch, Min(startIdx, endIdx), Max(startIdx, endIdx))

\* The body of segments.forEach for one segment.
ExpandSegment(set, seg) ==
    IF Includes(seg, Str(<<"~">>))
    THEN ExpandRangeSegment(set, seg)
    ELSE LET tooth == Trim(RemoveFirst(seg, Str(<<"#">>)))
         IN  IF tooth # <<>> THEN SetAdd(set, tooth) ELSE set

RECURSIVE ExpandSegments(_, _)
ExpandSegments(set, segments) ==
    IF segments = <<>> THEN set
    ELSE ExpandSegments(ExpandSegment(set, Head(segments)), Tail(segments))

NotSpace(c) == ~IsSpace(c)

expandTeethRange(rawTeeth) ==
    IF rawTeeth = <<>> THEN <<>>
    ELSE ExpandSegments(<<>>, Split(SelectSeq(rawTeeth, NotSpace), Str(<<",">>)))

(***************************************************************************)
(* utils.ts: extractBoneGraftProducts                                      *)
(***************************************************************************)

\* U+B3D9, the Hangul syllable of the marker.
HangulDong == 46041

\* The marker the regular expression starts with: "(", U+B3D9, ")".
BoneMarker == <<Code("("), HangulDong, Code(")")>>

\* [^,\/]
NotSeparator(c) == c # Code(",") /\ c # Code("/")

\* Map.prototype.get(key) || 0
MapGet(map, key) ==
    IF \E i \in 1..Len(map) : map[i].name = key
    THEN (CHOOSE e \in Range(map) : e.name = key).qty
    ELSE 0

\* Map.prototype.set on an insertion-ordered Map of name -> qty.
MapSet(map, key, v) ==
    IF \E i \in 1..Len(map) : map[i].name = key
    THEN [i \in 1..Len(map) |->
            IF map[i].name = key THEN [name |-> key, qty |-> v] ELSE map[i]]
    ELSE Append(map, [name |-> key, qty |-> v])

\* boneCounts.set(itemName, 1): the count is not aggregated.
BoneCountOverwrite(map, itemName) == MapSet(map, itemName, 1)

\* boneCounts.set(itemName, (boneCounts.get(itemName) || 0) + 1)
BoneCount(map, itemName) == MapSet(map, itemName, MapGet(map, itemName) + 1)

\* The first position at or after k that is in stops, Len(s) + 1 when none.
FirstStop(s, k, stops) ==
    IF stops = {} THEN Max(Len(s) + 1, k)
    ELSE CHOOSE i \in stops : \A j \in stops : i <= j

\* Length of the run of [^,\/] characters that starts at position k.
RunNotSeparator(s, k) ==
    FirstStop(s, k, {i \in k..Len(s) : ~NotSeparator(s[i])}) - k

\* Length of the run of \s characters that starts at position k.
RunSpace(s, k) ==
    FirstStop(s, k, {i \in k..Len(s) : ~IsSpace(s[i])}) - k

\* One attempt of the regular expression at a marker found at position p:
\* the marker, \s* (greedy, giving back characters when the group would be
\* empty), then the group [^,\/]+. The result is [ok, group, next]: whether
\* it matched, the captured group and the position after the match.
BoneMatchAt(s, p) ==
    LET q     == p + Len(BoneMarker)
        body  == RunNotSeparator(s, q)
        blank == RunSpace(s, q)
        skip  == IF blank < body THEN blank ELSE body - 1
    IN  IF body = 0
        THEN [ok |-> FALSE, group |-> <<>>, next |-> p + 1]
        ELSE [ok |-> TRUE, group |-> SubSeq(s, q + skip, q + body - 1), next |-> q + body]

RECURSIVE BoneScan(_, _, _)
\* while ((match = boneRegex.exec(content)) !== null) { ... } from lastIndex.
BoneScan(s, from, counts) ==
    LET p == IndexFrom(s, BoneMarker, from)
    IN  IF p = 0 THEN counts
        ELSE LET m == BoneMatchAt(s, p)
                 itemName == Trim(m.group)
             IN  IF ~m.ok THEN BoneScan(s, m.next, counts)
                 ELSE IF itemName # <<>>
                      THEN BoneScan(s, m.next, BoneCount(counts, itemName))
                      ELSE BoneScan(s, m.next, counts)

extractBoneGraftProducts(content) == BoneScan(content, 1, <<>>)

(***************************************************************************)
(* utils.ts: toHalfWidth, parsePatientInfo, formatDate                     *)
(***************************************************************************)

\* The full-width forms U+FF01..U+FF5E, their distance 0xFEE0 to the ASCII
\* forms, and the full-width space U+3000.
FullWidthFirst == 65281
FullWidthLast == 65374
FullWidthOffset == 65248
IdeographicSpace == 12288

\* The first replace with the offset 0x20: a full-width letter is moved
\* inside the full-width range.
FoldCharShort(c) == IF c \in FullWidthFirst..FullWidthLast THEN c - 32 ELSE c

\* String.fromCharCode(s.charCodeAt(0) - 0xfee0) for [U+FF01-U+FF5E]
FoldChar(c) == IF c \in FullWidthFirst..FullWidthLast THEN c - FullWidthOffset ELSE c

\* .replace(/U+3000/g, ' ')
FoldSpace(c) == IF c = IdeographicSpace THEN Code(" ") ELSE c

toHalfWidth(str) == [i \in 1..Len(str) |-> FoldSpace(FoldChar(str[i]))]

NotParen(c) == c # Code("(") /\ c # Code(")")

\* The position of the last digit instead of the first, 0 when none.
LastDigit(s) ==
    LET ds == {i \in 1..Len(s) : IsDigit(s[i])}
    IN  IF ds = {} THEN 0 ELSE CHOOSE i \in ds : \A j \in ds : i >= j

\* rawPatient.search(/\d/): 1-based, 0 when there is no digit.
FirstDigit(s) ==
    LET ds == {i \in 1..Len(s) : IsDigit(s[i])}
    IN  IF ds = {} THEN 0 ELSE CHOOSE i \in ds : \A j \in ds : i <= j

parsePatientInfo(rawPatient) ==
    LET firstDigitIdx == FirstDigit(rawPatient)
    IN  IF firstDigitIdx # 0
        THEN [name |-> Trim(SelectSeq(SubSeq(rawPatient, 1, firstDigitIdx - 1), NotParen)),
              chartNumber |->
                  Trim(SelectSeq(SubSeq(rawPatient, firstDigitIdx, Len(rawPatient)), NotParen))]
        ELSE [name |-> rawPatient, chartNumber |-> <<>>]

RECURSIVE NumToString(_)
\* Number.prototype.toString / String(n) for a natural number.
NumToString(n) ==
    IF n < 10 THEN <<48 + n>> ELSE NumToString(n \div 10) \o <<48 + (n % 10)>>

RECURSIVE PadStart(_, _, _)
\* String.prototype.padStart(width, ch)
PadStart(s, width, ch) == IF Len(s) >= width THEN s ELSE PadStart(<<ch>> \o s, width, ch)

\* formatDate of a Date object, given as its local year, month (1..12, that
\* is getMonth() + 1) and day.
formatDate(date) ==
    NumToString(date.y) \o Str(<<"-">>)
    \o PadStart(NumToString(date.m), 2, Code("0")) \o Str(<<"-">>)
    \o PadStart(NumToString(date.d), 2, Code("0"))

(***************************************************************************)
(* utils.ts: VENDOR_MAP, determineSupplier, extractProductName             *)
(***************************************************************************)

\* U+BE44 U+C624 U+CF00 U+C774
KoBOK == <<48708, 50724, 52992, 51060>>
\* U+C528 U+C9C0 U+BC14 U+C774 U+C624
KoCGBio == <<50472, 51648, 48148, 51060, 50724>>
\* U+D478 U+C5B4 U+B85C U+C2A4
KoPureros == <<54392, 50612, 47196, 49828>>
\* U+C774 U+C820 U+C784 U+D50C U+B780 U+D2B8 ( U+C8FC )
KoIzenKey == <<51060, 51232, 51076, 54540, 46976, 53944, 40, 51452, 41>>
\* U+C8FC U+C2DD U+D68C U+C0AC, blank, U+BA54 U+D0C0 U+C57D U+D488 _ U+C758
\* U+B8CC U+AE30 U+AE30 U+D300
KoMeta ==
    <<51452, 49885, 54924, 49324, 32, 47700, 53440, 50557, 54408, 95, 51032, 47308,
      44592, 44592, 54016>>
\* U+C624 U+C2A4 U+D15C U+C784 U+D50C U+B780 U+D2B8, blank, U+C8FC U+C2DD
\* U+D68C U+C0AC
KoOsstem ==
    <<50724, 49828, 53596, 51076, 54540, 46976, 53944, 32, 51452, 49885, 54924, 49324>>
\* U+BA54 U+AC00 U+C820
KoMegagenKey == <<47700, 44032, 51232>>
\* ( U+C8FC ) U+BA54 U+AC00 U+C820 U+C784 U+D50C U+B780 U+D2B8
KoMegagen == <<40, 51452, 41, 47700, 44032, 51232, 51076, 54540, 46976, 53944>>
\* U+C2A4 U+D2B8 U+B77C U+C6B0 U+B9CC
KoStraumann == <<49828, 53944, 46972, 50864, 47564>>

\* VENDOR_MAP in insertion order, the order of Object.entries.
VENDOR_MAP ==
    <<[key |-> Str(<<"I","Z","E","N","O","S","S">>), value |-> Str(<<"I","Z","E","N">>)],
      [key |-> Str(<<"T","I","T","A","N"," ","B","O","N","E">>), value |-> KoBOK],
      [key |-> Str(<<"A","l","l","o","b","o","n","e">>), value |-> KoCGBio],
      [key |-> Str(<<"P","U","R","E","R","O","S">>), value |-> KoPureros],
      [key |-> KoIzenKey, value |-> KoMeta],
      [key |-> Str(<<"I","Z","E","N">>), value |-> KoMeta],
      [key |-> Str(<<"P","L","A","N">>), value |-> KoMeta],
      [key |-> Str(<<"O","S","S","T","E","M">>), value |-> KoOsstem],
      [key |-> KoMegagenKey, value |-> KoMegagen],
      [key |-> Str(<<"M","e","g","a","g","e","n">>), value |-> KoMegagen],
      [key |-> Str(<<"S","t","r","a","u","m","a","n","n">>), value |-> KoStraumann]>>

\* The property names a plain object inherits from Object.prototype.
ObjectPrototypeNames ==
    {Str(<<"c","o","n","s","t","r","u","c","t","o","r">>),
     Str(<<"t","o","S","t","r","i","n","g">>),
     Str(<<"t","o","L","o","c","a","l","e","S","t","r","i","n","g">>),
     Str(<<"v","a","l","u","e","O","f">>),
     Str(<<"h","a","s","O","w","n","P","r","o","p","e","r","t","y">>),
     Str(<<"i","s","P","r","o","t","o","t","y","p","e","O","f">>),
     Str(<<"p","r","o","p","e","r","t","y","I","s","E","n","u","m","e","r","a","b","l","e">>),
     Str(<<"_","_","p","r","o","t","o","_","_">>),
     Str(<<"_","_","d","e","f","i","n","e","G","e","t","t","e","r","_","_">>),
     Str(<<"_","_","d","e","f","i","n","e","S","e","t","t","e","r","_","_">>),
     Str(<<"_","_","l","o","o","k","u","p","G","e","t","t","e","r","_","_">>),
     Str(<<"_","_","l","o","o","k","u","p","S","e","t","t","e","r","_","_">>)}

\* An inherited member of Object.prototype: a function or an object, truthy
\* and not a string.
Inherited == <<-2>>

\* vendorMap[vendorKey], a property read on a plain object: the value of an
\* own key of the table, else the member inherited under that name from
\* Object.prototype, else undefined.
VendorLookup(vendorMap, vendorKey) ==
    IF \E i \in 1..Len(vendorMap) : vendorMap[i].key = vendorKey
    THEN (CHOOSE e \in Range(vendorMap) : e.key = vendorKey).value
    ELSE IF vendorKey \in ObjectPrototypeNames THEN Inherited
    ELSE Undefined

DashSep == Str(<<" ","-"," ">>)

\* The keys of vendorMap, in table order, that are substrings of content.
VendorHits(content, vendorMap) ==
    SelectSeq(vendorMap, LAMBDA e : Includes(content, e.key))

\* determineSupplier with the exact lookup of the text before " - " tried
\* before the substring scan.
determineSupplierExactFirst(content, vendorMap) ==
    LET hits == VendorHits(content, vendorMap)
        vendorKey == Trim(Split(content, DashSep)[1])
        found == VendorLookup(vendorMap, vendorKey)
    IN  IF found # Undefined THEN found
        ELSE IF hits # <<>> THEN hits[1].value
        ELSE vendorKey

determineSupplier(content, vendorMap) ==
    LET hits == VendorHits(content, vendorMap)
    IN  IF hits # <<>> THEN hits[1].value
        ELSE LET vendorKey == Trim(Split(content, DashSep)[1])
                 found == VendorLookup(vendorMap, vendorKey)
             IN  IF found # Undefined /\ found # <<>> THEN found ELSE vendorKey

\* The dimension symbol U+03A6 and the multiplication sign U+00D7.
GreekPhi == 934
MultiplicationSign == 215

\* [*, U+00D7, x]
IsSizeSep(c) == c \in {Code("*"), MultiplicationSign, Code("x")}

\* Length of the run of \d characters that starts at position k.
RunDigits(s, k) ==
    FirstStop(s, k, {i \in k..Len(s) : ~IsDigit(s[i])}) - k

\* \d+\.?\d* at position k (greedy): the position after the match, 0 when
\* there is no digit at k.
NumberEnd(s, k) ==
    LET a == k + RunDigits(s, k)
        b == IF a <= Len(s) /\ s[a] = Code(".") THEN a + 1 ELSE a
    IN  IF a = k THEN 0 ELSE b + RunDigits(s, b)

\* One attempt of the size pattern at a dimension symbol at position p:
\* [ok, from, to, dia, len] with the matched text s[from..to] and the two
\* captured numbers. Giving back characters of a greedy part never lets the
\* pattern match, so the greedy attempt decides.
SizeMatchAt(s, p) ==
    LET n1   == p + 1 + RunSpace(s, p + 1)
        e1   == NumberEnd(s, n1)
        sep  == e1 + RunSpace(s, e1)
        n2   == sep + 1 + RunSpace(s, sep + 1)
        e2   == NumberEnd(s, n2)
        fail == [ok |-> FALSE, from |-> 0, to |-> 0, dia |-> <<>>, len |-> <<>>]
    IN  IF e1 = 0 THEN fail
        ELSE IF sep > Len(s) \/ ~IsSizeSep(s[sep]) THEN fail
        ELSE IF e2 = 0 THEN fail
        ELSE [ok |-> TRUE, from |-> p, to |-> e2 - 1,
              dia |-> SubSeq(s, n1, e1 - 1), len |-> SubSeq(s, n2, e2 - 1)]

\* cleanProduct.match(...): the leftmost position where the pattern matches.
SizeMatch(s) ==
    LET ps == {p \in 1..Len(s) : s[p] = GreekPhi /\ SizeMatchAt(s, p).ok}
    IN  IF ps = {} THEN [ok |-> FALSE, from |-> 0, to |-> 0, dia |-> <<>>, len |-> <<>>]
        ELSE SizeMatchAt(s, CHOOSE p \in ps : \A q \in ps : p <= q)

RECURSIVE DigitsValue(_)
\* The natural number written by a string of digits.
DigitsValue(ds) ==
    IF ds = <<>> THEN 0 ELSE 10 * DigitsValue(SubSeq(ds, 1, Len(ds) - 1)) + (ds[Len(ds)] - 48)

\* The integer part and the fraction digits of a text matched by \d+\.?\d*.
IntPart(num) == SubSeq(num, 1, RunDigits(num, 1))
FracPart(num) == SubSeq(num, RunDigits(num, 1) + 2, Len(num))

\* Math.round(parseFloat(num) * 10) without the rounding: the second
\* fraction digit is dropped.
TruncTimesTen(num) ==
    10 * DigitsValue(IntPart(num)) + (IF Len(FracPart(num)) >= 1 THEN FracPart(num)[1] - 48 ELSE 0)

\* Math.round(parseFloat(num) * 10), computed on the decimal digits: ten
\* times the integer part, plus the first fraction digit, plus one when the
\* second fraction digit is 5 or more.
RoundTimesTen(num) ==
    LET f == FracPart(num)
    IN  10 * DigitsValue(IntPart(num))
        + (IF Len(f) >= 1 THEN f[1] - 48 ELSE 0)
        + (IF Len(f) >= 2 /\ f[2] >= Code("5") THEN 1 ELSE 0)

\* Math.floor(parseFloat(num))
FloorOf(num) == DigitsValue(IntPart(num))

\* cleanProduct as the text after the last " - " of productPart.
CleanProductLastPart(rawRecord) ==
    LET productPart == Trim(Split(rawRecord, Str(<<"/">>))[1])
        parts == Split(productPart, DashSep)
    IN  Trim(parts[Len(parts)])

\* extractProductName up to the size rewrite: cleanProduct.
CleanProduct(rawRecord) ==
    LET productPart == Trim(Split(rawRecord, Str(<<"/">>))[1])
    IN  IF Includes(productPart, DashSep)
        THEN Trim(Join(Tail(Split(productPart, DashSep)), DashSep))
        ELSE productPart

extractProductName(rawRecord) ==
    LET cleanProduct == CleanProduct(rawRecord)
        sizeMatch == SizeMatch(cleanProduct)
    IN  IF sizeMatch.ok
        THEN LET dia == NumToString(RoundTimesTen(sizeMatch.dia))
                 len == PadStart(NumToString(FloorOf(sizeMatch.len)), 2, Code("0"))
             IN  Trim(RemoveFirst(cleanProduct, SubSeq(cleanProduct, sizeMatch.from, sizeMatch.to)))
                 \o Str(<<" ">>) \o dia \o len
        ELSE cleanProduct

(***************************************************************************)
(* parser.ts: sheet cells and rows (XLSX.utils.sheet_to_json, header: 1)   *)
(***************************************************************************)

\* A cell of a row array: absent, a text, a number or a Date object.
EmptyCell == [t |-> "empty"]
StrCell(v) == [t |-> "str", v |-> v]
NumCell(n) == [t |-> "num", n |-> n]
DateCell(y, m, d) == [t |-> "date", y |-> y, m |-> m, d |-> d]

\* JavaScript truthiness of a cell value.
Truthy(cell) ==
    CASE cell.t = "empty" -> FALSE
      [] cell.t = "str"   -> cell.v # <<>>
      [] cell.t = "num"   -> cell.n # 0
      [] cell.t = "date"  -> TRUE

\* String(cell || '') for an absent, text or numeric cell.
CellString(cell) ==
    CASE ~Truthy(cell)    -> <<>>
      [] cell.t = "str"   -> cell.v
      [] cell.t = "num"   -> NumToString(cell.n)

\* The length of a row when absent trailing cells are counted.
RowLengthPadded(row) == Len(row)

\* row.length: the row array ends with its last present cell.
RowLength(row) ==
    LET present == {k \in 1..Len(row) : row[k].t # "empty"}
    IN  IF present = {} THEN 0 ELSE CHOOSE k \in present : \A j \in present : j <= k

\* The date text when a number is written out as text.
DateTextOfNumber(cell) ==
    IF cell.t = "date" THEN formatDate(cell)
    ELSE IF cell.t = "str" THEN cell.v
    ELSE IF cell.t = "num" THEN NumToString(cell.n)
    ELSE <<>>

\* The date text of a date cell: formatDate for a Date object, the text
\* itself for a string, the empty string for anything else.
DateText(cell) ==
    IF cell.t = "date" THEN formatDate(cell)
    ELSE IF cell.t = "str" THEN cell.v
    ELSE <<>>

\* The template literal date|chart.
LookupKey(dateStr, chartNumber) == dateStr \o Str(<<"|">>) \o chartNumber

(***************************************************************************)
(* parser.ts: parseInsuranceData                                           *)
(***************************************************************************)

\* patientInfo.match(/\d+/): the first run of digits, '' when none.
FirstDigitRun(s) ==
    LET k == FirstDigit(s)
    IN  IF k = 0 THEN <<>> ELSE SubSeq(s, k, k + RunDigits(s, k) - 1)

\* insMap.get(key) || []
InsGet(map, key) ==
    IF \E k \in 1..Len(map) : map[k].key = key
    THEN (CHOOSE e \in Range(map) : e.key = key).teeth
    ELSE <<>>

\* The update that keeps each tooth once under its key.
InsPushUnique(map, key, tooth) ==
    IF \E k \in 1..Len(map) : map[k].key = key
    THEN [k \in 1..Len(map) |->
            IF map[k].key = key
            THEN [key |-> key, teeth |-> SetAdd(map[k].teeth, tooth)]
            ELSE map[k]]
    ELSE Append(map, [key |-> key, teeth |-> <<tooth>>])

\* if (!insMap.has(key)) insMap.set(key, []); insMap.get(key).push(tooth)
InsPush(map, key, tooth) ==
    IF \E k \in 1..Len(map) : map[k].key = key
    THEN [k \in 1..Len(map) |->
            IF map[k].key = key
            THEN [key |-> key, teeth |-> Append(map[k].teeth, tooth)]
            ELSE map[k]]
    ELSE Append(map, [key |-> key, teeth |-> <<tooth>>])

\* One iteration of the loop of parseInsuranceData.
InsuranceRow(map, row) ==
    IF RowLength(row) < 4 THEN map
    ELSE LET patientInfo == CellString(row[1])
             toothNumber == Trim(RemoveFirst(CellString(row[2]), Str(<<"#">>)))
             stage2Date  == row[4]
         IN  IF ~Truthy(stage2Date) \/ toothNumber = <<>> THEN map
             ELSE InsPush(map,
                          LookupKey(DateText(stage2Date), FirstDigitRun(patientInfo)),
                          toothNumber)

RECURSIVE InsuranceRows(_, _)
InsuranceRows(map, rows) ==
    IF rows = <<>> THEN map ELSE InsuranceRows(InsuranceRow(map, Head(rows)), Tail(rows))

parseInsuranceData(insSheet) == InsuranceRows(<<>>, insSheet)

(***************************************************************************)
(* parser.ts: parseSurgeryImplant, parseSurgeryBone                        *)
(***************************************************************************)

\* U+BCF4 U+D5D8, the supplier of an insured implant.
InsuranceSupplier == <<48372, 54744>>

GBROnlyMarker == Str(<<"[","G","B","R"," ","O","n","l","y","]">>)

\* The test that every tooth of the set is among the insured teeth.
EveryToothInsured(insTeeth, teethSet) ==
    /\ teethSet # <<>>
    /\ \A k \in 1..Len(teethSet) : teethSet[k] \in Range(insTeeth)

\* insTeeth.some((t) => teethSet.has(t))
SomeInsured(insTeeth, teethSet) == \E k \in 1..Len(insTeeth) : SetHas(teethSet, insTeeth[k])

\* The classification that looks up the vendor before the insurance flag.
ClassifyVendorFirst(isInsurance, rawRecord) ==
    IF Includes(rawRecord, GBROnlyMarker) /\ ~isInsurance
    THEN [supplier |-> Str(<<"G","B","R"," ","O","n","l","y">>), isGBROnly |-> TRUE]
    ELSE IF VendorHits(rawRecord, VENDOR_MAP) # <<>> \/ ~isInsurance
    THEN [supplier |-> determineSupplier(rawRecord, VENDOR_MAP), isGBROnly |-> FALSE]
    ELSE [supplier |-> InsuranceSupplier, isGBROnly |-> FALSE]

\* if (isInsurance) ... else if (rawRecord.includes('[GBR Only]')) ... else ...
Classify(isInsurance, rawRecord) ==
    IF isInsurance THEN [supplier |-> InsuranceSupplier, isGBROnly |-> FALSE]
    ELSE IF Includes(rawRecord, GBROnlyMarker)
    THEN [supplier |-> Str(<<"G","B","R"," ","O","n","l","y">>), isGBROnly |-> TRUE]
    ELSE [supplier |-> determineSupplier(rawRecord, VENDOR_MAP), isGBROnly |-> FALSE]

\* The insurance test on the first tooth of the set only.
IsInsuredFirstTooth(map, dateStr, chartNumber, teethSet) ==
    /\ teethSet # <<>>
    /\ teethSet[1] \in Range(InsGet(map, LookupKey(dateStr, chartNumber)))

\* const insTeeth = insMap.get(lookupKey) || []; insTeeth.some(...)
IsInsured(map, dateStr, chartNumber, teethSet) ==
    SomeInsured(InsGet(map, LookupKey(dateStr, chartNumber)), teethSet)

\* One iteration of the loop of parseSurgeryImplant: the records after it.
ImplantRow(records, row, map) ==
    IF RowLength(row) < 4 THEN records
    ELSE LET surgDate   == row[1]
             rawPatient == CellString(row[2])
             rawTeeth   == CellString(row[3])
             rawRecord  == toHalfWidth(CellString(row[4]))
             patient    == parsePatientInfo(rawPatient)
             teethSet   == expandTeethRange(rawTeeth)
             dateStr    == DateText(surgDate)
             isInsurance == IsInsured(map, dateStr, patient.chartNumber, teethSet)
             class      == Classify(isInsurance, rawRecord)
         IN  IF rawPatient = <<>> THEN records
             ELSE IF class.isGBROnly THEN records
             ELSE Append(records,
                         [date |-> dateStr,
                          patientName |-> patient.name,
                          chartNumber |-> patient.chartNumber,
                          teethSet |-> teethSet,
                          quantity |-> Len(teethSet),
                          supplier |-> class.supplier,
                          productName |-> extractProductName(rawRecord),
                          isInsurance |-> isInsurance])

\* The test of parseSurgeryBone without the products.size > 0 guard.
BoneEmitsAlways(products) == TRUE

\* if (products.size > 0)
BoneEmits(products) == Len(products) > 0

\* One iteration of the loop of parseSurgeryBone: the records after it.
BoneRow(records, row) ==
    IF RowLength(row) < 4 THEN records
    ELSE LET surgDate   == row[1]
             rawPatient == CellString(row[2])
             rawTeeth   == CellString(row[3])
             rawRecord  == CellString(row[4])
             patient    == parsePatientInfo(rawPatient)
             teethSet   == expandTeethRange(rawTeeth)
             dateStr    == DateText(surgDate)
             products   == extractBoneGraftProducts(rawRecord)
         IN  IF rawPatient = <<>> THEN records
             ELSE IF BoneEmits(products)
             THEN Append(records,
                         [date |-> dateStr,
                          patientName |-> patient.name,
                          chartNumber |-> patient.chartNumber,
                          teethSet |-> teethSet,
                          products |-> products])
             ELSE records

RECURSIVE ImplantRowsOnce(_, _, _)
\* The loop that emits one record per chart number: a row is dropped when an
\* earlier row of the sheet has emitted a record of its chart.
ImplantRowsOnce(records, rows, map) ==
    IF rows = <<>> THEN records
    ELSE LET next == ImplantRow(records, Head(rows), map)
             seen == /\ Len(next) > Len(records)
                     /\ \E k \in 1..Len(records) :
                           records[k].chartNumber = next[Len(next)].chartNumber
         IN  ImplantRowsOnce(IF seen THEN records ELSE next, Tail(rows), map)

RECURSIVE ImplantRows(_, _, _)
\* The loop of parseSurgeryImplant over the data rows.
ImplantRows(records, rows, map) ==
    IF rows = <<>> THEN records
    ELSE ImplantRows(ImplantRow(records, Head(rows), map), Tail(rows), map)

parseSurgeryImplant(data, map) == ImplantRows(<<>>, data, map)

RECURSIVE BoneRowsStop(_, _)
\* The loop that ends at the first row that emits nothing.
BoneRowsStop(records, rows) ==
    IF rows = <<>> THEN records
    ELSE IF BoneRow(records, Head(rows)) = records THEN records
    ELSE BoneRowsStop(BoneRow(records, Head(rows)), Tail(rows))

RECURSIVE BoneRows(_, _)
\* The loop of parseSurgeryBone over the data rows.
BoneRows(records, rows) ==
    IF rows = <<>> THEN records ELSE BoneRows(BoneRow(records, Head(rows)), Tail(rows))

parseSurgeryBone(data) == BoneRows(<<>>, data)

(***************************************************************************)
(* database.ts: findOrCreateTreatmentRecord, saveImplantRecords,           *)
(* saveBoneGraftRecords                                                    *)
(***************************************************************************)

\* String.prototype.toUpperCase on the letters a-z and their full-width
\* forms; the other characters of the model have no upper case.
UpperChar(c) ==
    IF c \in Code("a")..Code("z") \/ c \in (Code("a") + FullWidthOffset)..(Code("z") + FullWidthOffset)
    THEN c - 32 ELSE c

ToUpperCase(str) == [k \in 1..Len(str) |-> UpperChar(str[k])]

\* U+AE30 U+D0C0 / U+BBF8 U+C9C0 U+C815, the supplier of an unmapped product.
UnspecifiedSupplier == <<44592, 53440, 47, 48120, 51648, 51221>>

\* VENDOR_MAP with key.toUpperCase() for every key.
UpperVendorMap ==
    [k \in 1..Len(VENDOR_MAP) |->
        [key |-> ToUpperCase(VENDOR_MAP[k].key), value |-> VENDOR_MAP[k].value]]

\* The supplier of a bone-graft product: the value of the first key of
\* VENDOR_MAP that the product name contains, compared in upper case.
BoneSupplier(productName) ==
    LET hits == VendorHits(ToUpperCase(productName), UpperVendorMap)
    IN  IF hits # <<>> THEN hits[1].value ELSE UnspecifiedSupplier

\* The SELECT when no row of treatment_records ever matches.
SelectNothing(table, branchName, chartNumber, toothNumber) == 0

\* SELECT id FROM treatment_records WHERE branch_name = ? AND chart_number = ?
\* AND tooth_number = ?  .first(): the id of the first matching row, 0 for
\* null.
SelectTreatmentId(table, branchName, chartNumber, toothNumber) ==
    LET hits == SelectSeq(table, LAMBDA row : /\ row.branch_name = branchName
                                              /\ row.chart_number = chartNumber
                                              /\ row.tooth_number = toothNumber)
    IN  IF hits = <<>> THEN 0 ELSE hits[1].id

RECURSIVE Seek(_, _, _)
\* The position of the nested loops over records and their teeth at or after
\* (ri, ti): records without teeth are passed over; ri = Len(records) + 1
\* when the loops are over.
Seek(records, ri, ti) ==
    IF ri > Len(records) THEN [ri |-> ri, ti |-> 1]
    ELSE IF ti > Len(records[ri].teethSet) THEN Seek(records, ri + 1, 1)
    ELSE [ri |-> ri, ti |-> ti]

\* The records the current save function iterates over.
SaveRecords(st) == IF st.phase = "implant" THEN st.implantRecords ELSE st.boneRecords

\* U+C218 U+C220 U+AE30 U+B85D U+C9C0, the sheet of the surgery file, and
\* U+AE09 U+C5EC U+0020 U+C784 U+D50C U+B780 U+D2B8, the sheet of the
\* insurance file.
SurgerySheetName == <<49688, 49696, 44592, 47197, 51648>>
InsuranceSheetName == <<44553, 50668, 32, 51076, 54540, 46976, 53944>>

\* The error pushed when a workbook has no sheet of the expected name: the
\* name in quotes and the text that says the sheet was not found.
MissingSheet(name) ==
    Str(<<"'">>) \o name \o Str(<<"'">>)
    \o <<32, 49884, 53944, 47484, 32, 52286, 51012, 32, 49688, 32, 50630, 49845, 45768, 45796, 46>>

\* The error pushed by the catch around the surgery sheet: the text before
\* the interpolated exception.
SurgeryError == SurgerySheetName \o <<32, 52376, 47532, 32, 51473, 32, 50724, 47448, 58, 32>>

\* The element of a set of one element. An operator argument is evaluated
\* at each of its uses; TheOne({F(s) : s \in {e}}) evaluates e once.
TheOne(S) == CHOOSE x \in S : TRUE

\* The JSON answer of POST /api/upload: 400 with the errors when there are
\* any, 200 otherwise, both with recordsProcessed.
Respond(st) ==
    TheOne({[s EXCEPT !.pc = "done",
                      !.response = [status |-> IF s.errors # <<>> THEN 400 ELSE 200,
                                    success |-> s.errors = <<>>,
                                    recordsProcessed |-> s.totalRecords,
                                    errors |-> s.errors]] : s \in {st}})

\* A D1 statement of a save function has thrown: the catch around the
\* surgery sheet pushes its error and the handler answers.
Throw(st) == Respond([st EXCEPT !.errors = Append(@, SurgeryError)])

\* The handler after saveBoneGraftRecords has returned count.
ReturnBoneCount(st) ==
    TheOne({Respond([s EXCEPT !.boneCount = s.count,
                              !.totalRecords = s.totalRecords + s.count]) : s \in {st}})

\* saveBoneGraftRecords is called with records, up to its first await.
SaveBone(st, records) ==
    LET pos == Seek(records, 1, 1)
        entered == [st EXCEPT !.boneRecords = records, !.phase = "bone", !.count = 0,
                              !.ri = pos.ri, !.ti = pos.ti, !.pi = 1, !.pc = "find"]
    IN  IF pos.ri > Len(records) THEN ReturnBoneCount(entered) ELSE entered

\* parseSurgeryBone and the call of saveBoneGraftRecords.
EnterBone(st) ==
    TheOne({SaveBone(s, records) : s \in {st}, records \in {parseSurgeryBone(st.sheet)}})

\* The handler after saveImplantRecords has returned count: totalRecords +=
\* implantCount, then parseSurgeryBone and the call of saveBoneGraftRecords.
ReturnImplantCount(st) ==
    TheOne({EnterBone([s EXCEPT !.implantCount = s.count,
                                !.totalRecords = s.totalRecords + s.count]) : s \in {st}})

\* saveImplantRecords is called with records, up to its first await.
SaveImplant(st, records) ==
    LET pos == Seek(records, 1, 1)
        entered == [st EXCEPT !.implantRecords = records, !.phase = "implant", !.count = 0,
                              !.ri = pos.ri, !.ti = pos.ti, !.pc = "find"]
    IN  IF pos.ri > Len(records) THEN ReturnImplantCount(entered) ELSE entered

\* parseSurgeryImplant and the call of saveImplantRecords.
EnterImplant(st) ==
    TheOne({SaveImplant(s, records) :
               s \in {st}, records \in {parseSurgeryImplant(st.sheet, st.insMap)}})

\* The sheet a workbook is read as when its name is not looked at.
AnySheet(workbook, name) == <<workbook.rows>>

\* workbook.Sheets[name] of a workbook of one sheet: <<rows>>, the data rows
\* of the sheet, or <<>> when the sheet has another name.
SheetNamed(workbook, name) == IF workbook.name = name THEN <<workbook.rows>> ELSE <<>>

\* The insurance file of a handler whose index outlives the request: without
\* a usable file the index of another request is found.
ReadInsuranceFileShared(st) ==
    LET insSheet == IF st.insuranceFile = <<>> THEN <<>>
                    ELSE SheetNamed(st.insuranceFile[1], InsuranceSheetName)
        left == {r \in DOMAIN req : req[r].insMap # <<>>}
        kept == IF left = {} THEN <<>> ELSE req[CHOOSE r \in left : TRUE].insMap
    IN  IF insSheet # <<>>
        THEN TheOne({[st EXCEPT !.insMap = map] : map \in {parseInsuranceData(insSheet[1])}})
        ELSE IF st.insuranceFile = <<>> THEN [st EXCEPT !.insMap = kept]
        ELSE [st EXCEPT !.insMap = kept,
                        !.errors = Append(@, MissingSheet(InsuranceSheetName))]

\* The insurance file of the handler (<<>> without a file, else <<workbook>>):
\* the InsuranceIndex of its sheet, or the error of the missing sheet;
\* without a file the index stays empty.
ReadInsuranceFile(st) ==
    IF st.insuranceFile = <<>> THEN st
    ELSE LET insSheet == SheetNamed(st.insuranceFile[1], InsuranceSheetName)
         IN  IF insSheet # <<>>
             THEN TheOne({[st EXCEPT !.insMap = map] : map \in {parseInsuranceData(insSheet[1])}})
             ELSE [st EXCEPT !.errors = Append(@, MissingSheet(InsuranceSheetName))]

\* The surgery file of one handler state: the two saves of its sheet, or the
\* error of the missing sheet; then the answer.
SurgeryFileOf(st) ==
    IF st.surgeryFile = <<>> THEN Respond(st)
    ELSE LET found == SheetNamed(st.surgeryFile[1], SurgerySheetName)
         IN  IF found # <<>>
             THEN EnterImplant([st EXCEPT !.sheet = found[1]])
             ELSE Respond([st EXCEPT !.errors = Append(@, MissingSheet(SurgerySheetName))])

ReadSurgeryFile(st) == TheOne({SurgeryFileOf(s) : s \in {st}})

\* The next position of the loops of one handler state.
NextToothOf(st) ==
    LET pos  == Seek(SaveRecords(st), st.ri, st.ti + 1)
        next == [st EXCEPT !.ri = pos.ri, !.ti = pos.ti, !.pi = 1, !.pc = "find"]
    IN  IF pos.ri <= Len(SaveRecords(st)) THEN next
        ELSE IF st.phase = "implant" THEN ReturnImplantCount(next)
        ELSE ReturnBoneCount(next)

\* The loops after the inserts of the current tooth: the next tooth, or the
\* return of the save function.
NextTooth(st) == TheOne({NextToothOf(s) : s \in {st}})

\* findOrCreateTreatmentRecord has returned id: the caller goes on to its
\* insert; a bone-graft record without products has none.
AfterTreatmentId(st, id) ==
    LET got == [st EXCEPT !.treatmentId = id, !.pc = "insert"]
    IN  IF st.phase = "bone" /\ st.boneRecords[st.ri].products = <<>>
        THEN NextTooth(got) ELSE got

\* FOREIGN KEY (treatment_record_id) REFERENCES treatment_records(id), which
\* D1 enforces: the parent row of an inserted row exists.
ForeignKeyHolds(treatmentId) ==
    \E k \in 1..Len(treatment_records) : treatment_records[k].id = treatmentId

\* The handler of POST /api/upload starts: without a branch name it answers
\* 400; otherwise the files are read, the sheets parsed and saveImplantRecords
\* called.
StartUpload(r) ==
    /\ req[r].pc = "start"
    /\ req' = [req EXCEPT ![r] =
                 IF req[r].branchName = <<>>
                 THEN [req[r] EXCEPT !.pc = "done",
                                     !.response = [status |-> 400, success |-> FALSE,
                                                   recordsProcessed |-> 0, errors |-> <<>>]]
                 ELSE ReadSurgeryFile(ReadInsuranceFile(req[r]))]
    /\ UNCHANGED <<treatment_records, implant, bone_graft, lastId, query, batch>>
    /\ UNCHANGED uvars
    /\ UNCHANGED pvars

\* The table when the row that was found takes the patient name of the
\* caller.
RowsRenamed(table, id, patientName) ==
    [k \in 1..Len(table) |->
        IF table[k].id = id THEN [table[k] EXCEPT !.patient_name = patientName]
        ELSE table[k]]

\* treatment_records after the SELECT of findOrCreateTreatmentRecord: the
\* function has no UPDATE, the row that was found stays as it is.
RowsAfterSelect(table, id, patientName) == table

\* findOrCreateTreatmentRecord, the SELECT: return the id of the existing
\* row, or go on to the INSERT.
FindTreatmentRecord(r) ==
    LET st  == req[r]
        rec == SaveRecords(st)[st.ri]
        existing == SelectTreatmentId(treatment_records, st.branchName,
                                      rec.chartNumber, rec.teethSet[st.ti])
    IN  /\ st.pc = "find"
        /\ req' = [req EXCEPT ![r] =
                     IF existing # 0 THEN AfterTreatmentId(st, existing)
                     ELSE [st EXCEPT !.pc = "create"]]
        /\ treatment_records' = RowsAfterSelect(treatment_records, existing, rec.patientName)
        /\ UNCHANGED <<implant, bone_graft, lastId, query, batch>>
        /\ UNCHANGED uvars
        /\ UNCHANGED pvars

\* findOrCreateTreatmentRecord, the INSERT: return last_row_id.
CreateTreatmentRecord(r) ==
    LET st  == req[r]
        rec == SaveRecords(st)[st.ri]
        id  == lastId.treatment_records + 1
    IN  /\ st.pc = "create"
        /\ treatment_records' =
              Append(treatment_records,
                     [id |-> id, branch_name |-> st.branchName,
                      patient_name |-> rec.patientName,
                      chart_number |-> rec.chartNumber,
                      tooth_number |-> rec.teethSet[st.ti]])
        /\ lastId' = [lastId EXCEPT !.treatment_records = id]
        /\ req' = [req EXCEPT ![r] = AfterTreatmentId(st, id)]
        /\ UNCHANGED <<implant, bone_graft, query, batch>>
        /\ UNCHANGED uvars
        /\ UNCHANGED pvars

\* The quantity bound to an implant row when the size of the tooth set is
\* stored instead.
ImplantQuantityOfRecord(record) == record.quantity

\* The quantity bound to an implant row: 1 for each tooth.
ImplantQuantity(record) == 1

\* saveImplantRecords: the INSERT INTO implant of the current tooth, count++;
\* the INSERT throws when the treatment record is gone.
InsertImplant(r) ==
    LET st  == req[r]
        rec == st.implantRecords[st.ri]
        id  == lastId.implant + 1
    IN  /\ st.pc = "insert" /\ st.phase = "implant"
        /\ IF ForeignKeyHolds(st.treatmentId)
           THEN /\ implant' =
                      Append(implant,
                             [id |-> id, treatment_record_id |-> st.treatmentId,
                              date |-> rec.date, product_name |-> rec.productName,
                              quantity |-> ImplantQuantity(rec), amount |-> 0,
                              supplier |-> rec.supplier,
                              is_insurance |-> IF rec.isInsurance THEN 1 ELSE 0])
                /\ lastId' = [lastId EXCEPT !.implant = id]
                /\ req' = [req EXCEPT ![r] = NextTooth([st EXCEPT !.count = st.count + 1])]
           ELSE /\ req' = [req EXCEPT ![r] = Throw(st)]
                /\ UNCHANGED <<implant, lastId>>
        /\ UNCHANGED <<treatment_records, bone_graft, query, batch>>
        /\ UNCHANGED uvars
        /\ UNCHANGED pvars

\* saveBoneGraftRecords: the INSERT INTO bone_graft of the current product of
\* the current tooth, count++; the INSERT throws when the treatment record is
\* gone.
InsertBoneGraft(r) ==
    LET st  == req[r]
        rec == st.boneRecords[st.ri]
        product == rec.products[st.pi]
        id  == lastId.bone_graft + 1
        counted == [st EXCEPT !.count = st.count + 1]
    IN  /\ st.pc = "insert" /\ st.phase = "bone"
        /\ IF ForeignKeyHolds(st.treatmentId)
           THEN /\ bone_graft' =
                      Append(bone_graft,
                             [id |-> id, treatment_record_id |-> st.treatmentId,
                              date |-> rec.date, product_name |-> product.name,
                              quantity |-> product.qty, amount |-> 0,
                              supplier |-> BoneSupplier(product.name)])
                /\ lastId' = [lastId EXCEPT !.bone_graft = id]
                /\ req' = [req EXCEPT ![r] =
                             IF st.pi < Len(rec.products)
                             THEN [counted EXCEPT !.pi = st.pi + 1]
                             ELSE NextTooth(counted)]
           ELSE /\ req' = [req EXCEPT ![r] = Throw(st)]
                /\ UNCHANGED <<bone_graft, lastId>>
        /\ UNCHANGED <<treatment_records, implant, query, batch>>
        /\ UNCHANGED uvars
        /\ UNCHANGED pvars

\* A D1 statement of a save function rejects (the database is unreachable,
\* over its limits, ...): the exception leaves the save function.
StatementFails(r) ==
    /\ req[r].pc \in {"find", "create", "insert"}
    /\ req' = [req EXCEPT ![r] = Throw(req[r])]
    /\ UNCHANGED <<treatment_records, implant, bone_graft, lastId, query, batch>>
    /\ UNCHANGED uvars
    /\ UNCHANGED pvars

(***************************************************************************)
(* database.ts: deleteTreatmentRecord, deleteTreatmentRecordsBatch         *)
(***************************************************************************)

\* A child table after the DELETE of a treatment record when its rows are
\* left in place.
KeepRows(table, id) == table

\* ON DELETE CASCADE: a child table after the DELETE of treatment record id.
CascadeRows(table, id) == SelectSeq(table, LAMBDA row : row.treatment_record_id # id)

\* DELETE FROM treatment_records WHERE id = ?
DeleteStatement(id) ==
    /\ treatment_records' = SelectSeq(treatment_records, LAMBDA row : row.id # id)
    /\ implant' = CascadeRows(implant, id)
    /\ bone_graft' = CascadeRows(bone_graft, id)
    /\ UNCHANGED lastId

\* DELETE /api/records/:id: deleteTreatmentRecord, one statement.
DeleteRecord(id) ==
    /\ DeleteStatement(id)
    /\ UNCHANGED <<req, query, batch>>
    /\ UNCHANGED uvars
    /\ UNCHANGED pvars

\* POST /api/records/batch-delete with a non-empty array of ids: the call of
\* deleteTreatmentRecordsBatch.
StartBatchDelete(recordIds) ==
    /\ batch.pc = "idle"
    /\ recordIds # <<>>
    /\ batch' = [pc |-> "loop", recordIds |-> recordIds, k |-> 1, success |-> 0, failed |-> 0]
    /\ UNCHANGED <<treatment_records, implant, bone_graft, lastId, req, query>>
    /\ UNCHANGED uvars
    /\ UNCHANGED pvars

\* The loop of deleteTreatmentRecordsBatch after the statement of the
\* current id.
BatchStep(done) ==
    [batch EXCEPT !.k = batch.k + 1,
                  !.success = IF done THEN batch.success + 1 ELSE batch.success,
                  !.failed = IF done THEN batch.failed ELSE batch.failed + 1,
                  !.pc = IF batch.k = Len(batch.recordIds) THEN "return" ELSE "loop"]

\* deleteTreatmentRecordsBatch: the DELETE of the current id, success++.
BatchDeleteOne ==
    /\ batch.pc = "loop"
    /\ DeleteStatement(batch.recordIds[batch.k])
    /\ batch' = BatchStep(TRUE)
    /\ UNCHANGED <<req, query>>
    /\ UNCHANGED uvars
    /\ UNCHANGED pvars

\* deleteTreatmentRecordsBatch: the DELETE of the current id rejects,
\* failed++.
BatchDeleteFails ==
    /\ batch.pc = "loop"
    /\ batch' = BatchStep(FALSE)
    /\ UNCHANGED <<treatment_records, implant, bone_graft, lastId, req, query>>
    /\ UNCHANGED uvars
    /\ UNCHANGED pvars

\* deleteTreatmentRecordsBatch returns {success, failed} and the handler
\* answers.
BatchReturn ==
    /\ batch.pc = "return"
    /\ batch' = [pc |-> "idle"]
    /\ UNCHANGED <<treatment_records, implant, bone_graft, lastId, req, query>>
    /\ UNCHANGED uvars
    /\ UNCHANGED pvars

(***************************************************************************)
(* database.ts: queryTreatmentRecords                                      *)
(***************************************************************************)

RECURSIVE TextLeq(_, _)
\* a <= b for two TEXT values (BINARY collation: byte order, which is code
\* point order).
TextLeq(a, b) ==
    IF a = <<>> THEN TRUE
    ELSE IF b = <<>> THEN FALSE
    ELSE IF Head(a) # Head(b) THEN Head(a) < Head(b)
    ELSE TextLeq(Tail(a), Tail(b))

\* The upper case LIKE compares in: the letters a-z only.
LikeUpper(str) ==
    [k \in 1..Len(str) |-> IF str[k] \in Code("a")..Code("z") THEN str[k] - 32 ELSE str[k]]

\* text LIKE '%needle%' for a needle without the wildcards % and _.
Like(text, needle) == Includes(LikeUpper(text), LikeUpper(needle))

\* The rows of a child table LEFT JOINed to treatment record id: each row of
\* that record as <<row>>, or the NULL row <<>> when it has none.
LeftJoin(table, id) ==
    LET rows == {<<table[k]>> : k \in {j \in 1..Len(table) : table[j].treatment_record_id = id}}
    IN  IF rows = {} THEN {<<>>} ELSE rows

\* The date filter on one end of the range: bg.date >= ? OR im.date >= ?
\* (a comparison with NULL is not true).
FromDate(bg, im, startDate) ==
    \/ bg # <<>> /\ TextLeq(startDate, bg[1].date)
    \/ im # <<>> /\ TextLeq(startDate, im[1].date)

\* bg.date <= ? OR im.date <= ?
ToDate(bg, im, endDate) ==
    \/ bg # <<>> /\ TextLeq(bg[1].date, endDate)
    \/ im # <<>> /\ TextLeq(im[1].date, endDate)

\* The WHERE clause on one row of the join; a filter is added for every
\* parameter that is not empty.
Where(tr, bg, im, p) ==
    /\ p.branchName # <<>> => tr.branch_name = p.branchName
    /\ p.patientName # <<>> => Like(tr.patient_name, p.patientName)
    /\ p.chartNumber # <<>> => tr.chart_number = p.chartNumber
    /\ p.startDate # <<>> => FromDate(bg, im, p.startDate)
    /\ p.endDate # <<>> => ToDate(bg, im, p.endDate)
    /\ p.supplier # <<>> =>
          \/ bg # <<>> /\ Like(bg[1].supplier, p.supplier)
          \/ im # <<>> /\ Like(im[1].supplier, p.supplier)
    /\ p.productName # <<>> =>
          \/ bg # <<>> /\ Like(bg[1].product_name, p.productName)
          \/ im # <<>> /\ Like(im[1].product_name, p.productName)

\* SELECT DISTINCT tr.* FROM treatment_records tr LEFT JOIN bone_graft bg
\* LEFT JOIN implant im WHERE ...: the treatment records with a row of the
\* join that passes the filters.
SelectRecords(p) ==
    {tr \in Range(treatment_records) :
        \E bg \in LeftJoin(bone_graft, tr.id), im \in LeftJoin(implant, tr.id) :
            Where(tr, bg, im, p)}

\* SELECT * FROM child WHERE treatment_record_id = ?
EntriesOf(table, id) == {table[k] : k \in {j \in 1..Len(table) : table[j].treatment_record_id = id}}

\* GET /api/records: the first statement of queryTreatmentRecords.
QueryRecords(p) ==
    /\ query.pc = "idle"
    /\ query' = [pc |-> IF SelectRecords(p) = {} THEN "return" ELSE "bone_graft",
                 params |-> p, results |-> SelectRecords(p), record |-> <<>>,
                 boneGrafts |-> {}, views |-> <<>>]
    /\ UNCHANGED <<treatment_records, implant, bone_graft, lastId, req, batch>>
    /\ UNCHANGED uvars
    /\ UNCHANGED pvars

\* The loop over result.results: the bone_graft rows of the next record.
QueryBoneGrafts ==
    /\ query.pc = "bone_graft"
    /\ \E record \in query.results :
          query' = [query EXCEPT !.pc = "implant", !.record = <<record>>,
                                 !.results = query.results \ {record},
                                 !.boneGrafts = EntriesOf(bone_graft, record.id)]
    /\ UNCHANGED <<treatment_records, implant, bone_graft, lastId, req, batch>>
    /\ UNCHANGED uvars
    /\ UNCHANGED pvars

\* The implant rows of the record, and views.push.
QueryImplants ==
    /\ query.pc = "implant"
    /\ query' = [query EXCEPT
                   !.pc = IF query.results = {} THEN "return" ELSE "bone_graft",
                   !.record = <<>>, !.boneGrafts = {},
                   !.views = Append(query.views,
                                    [id |-> query.record[1].id,
                                     branch_name |-> query.record[1].branch_name,
                                     patient_name |-> query.record[1].patient_name,
                                     chart_number |-> query.record[1].chart_number,
                                     tooth_number |-> query.record[1].tooth_number,
                                     bone_graft |-> query.boneGrafts,
                                     implant |-> EntriesOf(implant, query.record[1].id)])]
    /\ UNCHANGED <<treatment_records, implant, bone_graft, lastId, req, batch>>
    /\ UNCHANGED uvars
    /\ UNCHANGED pvars

\* queryTreatmentRecords returns views and the handler answers.
QueryReturn ==
    /\ query.pc = "return"
    /\ query' = [pc |-> "idle"]
    /\ UNCHANGED <<treatment_records, implant, bone_graft, lastId, req, batch>>
    /\ UNCHANGED uvars
    /\ UNCHANGED pvars

(***************************************************************************)
(* Inputs of the utils harness                                             *)
(***************************************************************************)

\* Longest list of comma-separated segments tried after the single ranges.
MaxTeethSegs == 2

ArchIds == Range(upperArch) \cup Range(lowerArch)

\* Range endpoints: every arch identifier, an identifier of no arch, and a
\* short form as in "#35~7".
Endpoints == ArchIds \cup {Str(<<"1","9">>), Str(<<"7">>)}

\* "A~B" and "#A~B" for all endpoints.
RangeTexts ==
    {a \o Str(<<"~">>) \o b : a \in Endpoints, b \in Endpoints}
    \cup {Str(<<"#">>) \o a \o Str(<<"~">>) \o b : a \in Endpoints, b \in Endpoints}

SegSamples ==
    {Str(<<"#","3","5">>), Str(<<"3","7">>), Str(<<"#","3","5","~","3","7">>),
     Str(<<" ","1","3","~","2","2"," ">>), Str(<<"1","8","~","4","8">>), <<>>}

SegLists == UNION {[1..n -> SegSamples] : n \in 1..MaxTeethSegs}

TeethTexts == RangeTexts \cup {Join(l, Str(<<",">>)) : l \in SegLists}

\* Longest bone-graft note, counted in tokens.
MaxBoneTokens == 6

\* The pieces bone-graft notes are built from: the marker, the two
\* terminators, a blank and a letter (product names are runs of letters and
\* blanks, so "A", "AA" and "A A" are distinct names).
BoneTokens ==
    {BoneMarker, Str(<<",">>), Str(<<"/">>), Str(<<" ">>), Str(<<"A">>)}

\* "(marker) BoneX, (marker) BoneX,"
BoneXTwice ==
    BoneMarker \o Str(<<" ","B","o","n","e","X",","," ">>)
    \o BoneMarker \o Str(<<" ","B","o","n","e","X",",">>)

\* The bone-graft notes of at most n tokens, and the note of the example.
BoneTexts(n) ==
    {Concat(l) : l \in UNION {[1..k -> BoneTokens] : k \in 0..n}} \cup {BoneXTwice}

(***************************************************************************)
(* Inputs of the parsers: the uploaded sheets                              *)
(***************************************************************************)

\* Most data rows of a surgery sheet, and of an insurance sheet.
MaxRows == 1
MaxInsRows == 1

\* The same day as a Date object, as text, and as a spreadsheet serial
\* number (a date cell read without cellDates).
DateObj == DateCell(2026, 1, 5)
DateStr == StrCell(Str(<<"2","0","2","6","-","0","1","-","0","5">>))
DateNum == NumCell(46027)

PatientKim == StrCell(Str(<<"K","i","m","(","1","2","3","4","5",")">>))

\* "IZEN - IZENOSS <U+03A6>5.0<U+00D7>10 / etc"
NoteIzen ==
    Str(<<"I","Z","E","N"," ","-"," ","I","Z","E","N","O","S","S"," ">>)
    \o <<GreekPhi>> \o Str(<<"5",".","0">>) \o <<MultiplicationSign>>
    \o Str(<<"1","0"," ","/"," ","e","t","c">>)

\* "[GBR Only] (marker) BoneX, (marker) BoneX,"
NoteGbrBone == GBROnlyMarker \o Str(<<" ">>) \o BoneXTwice

\* The marker written with full-width brackets and a full-width space,
\* followed by " OSSTEM".
NoteGbrWide ==
    <<Code("[") + FullWidthOffset>> \o Str(<<"G","B","R">>) \o <<IdeographicSpace>>
    \o Str(<<"O","n","l","y">>) \o <<Code("]") + FullWidthOffset>>
    \o Str(<<" ","O","S","S","T","E","M">>)

\* "OSSTEM - TS <U+03A6>4.5x8.5 / (marker) A"
NoteOsstemBone ==
    Str(<<"O","S","S","T","E","M"," ","-"," ","T","S"," ">>) \o <<GreekPhi>>
    \o Str(<<"4",".","5","x","8",".","5"," ","/"," ">>) \o BoneMarker \o Str(<<" ","A">>)

\* "ABC - Prod": no key of the alias table.
NoteOther == Str(<<"A","B","C"," ","-"," ","P","r","o","d">>)

NoteCells ==
    {StrCell(NoteIzen), StrCell(NoteGbrBone), StrCell(NoteGbrWide),
     StrCell(NoteOsstemBone), StrCell(NoteOther), EmptyCell}

TeethCells ==
    {StrCell(Str(<<"#","3","5","~","3","7">>)), StrCell(Str(<<"#","1","1">>))}

\* Rows of the surgery sheet: date, patient info, tooth range, surgical note.
SurgeryRows ==
    {<<d, p, t, n>> : d \in {DateObj, DateNum}, p \in {PatientKim, EmptyCell},
                      t \in TeethCells, n \in NoteCells}

Sheets == UNION {[1..n -> SurgeryRows] : n \in 0..MaxRows}

\* Rows of the insurance sheet: patient info, tooth, stage-1 date, stage-2
\* date, stage-3 date.
InsuranceRowsIn ==
    {<<PatientKim, t, EmptyCell, d, EmptyCell>> :
        t \in {StrCell(Str(<<"#","3","6">>)), StrCell(Str(<<"1","1">>))},
        d \in {DateObj, DateStr, DateNum, EmptyCell}}

InsSheets == UNION {[1..n -> InsuranceRowsIn] : n \in 0..MaxInsRows}

\* The InsuranceIndex of an upload: the empty Map (no insurance file, or no
\* sheet of the expected name in it) or what parseInsuranceData returns.
InsMaps == {parseInsuranceData(sh) : sh \in InsSheets}

(***************************************************************************)
(* Inputs of the store: the records of concurrent uploads                  *)
(***************************************************************************)

MaxTeeth == 2
MaxProducts == 2

\* The uploads in flight.
Requests == {"r1", "r2"}

BranchA == Str(<<"A">>)
BranchB == Str(<<"B">>)
Chart12345 == Str(<<"1","2","3","4","5">>)
Chart777 == Str(<<"7","7","7">>)
NameKim == Str(<<"K","i","m">>)
NameLee == Str(<<"L","e","e">>)
SurgeryDate == Str(<<"2","0","2","6","-","0","1","-","0","5">>)
ProductOsstem == Str(<<"O","S","S","T","E","M"," ","4","0","1","0">>)

\* The products Map of a bone-graft record, as extractBoneGraftProducts
\* returns it: distinct names with their occurrence counts.
StoreProducts ==
    <<[name |-> Str(<<"A","l","l","o","b","o","n","e">>), qty |-> 2],
      [name |-> Str(<<"i","z","e","n","o","s","s">>), qty |-> 1],
      [name |-> Str(<<"B","o","n","e","X">>), qty |-> 1],
      [name |-> Str(<<"P","U","R","E","R","O","S">>), qty |-> 3]>>

\* An ImplantRecord of parseSurgeryImplant with the first n teeth of the
\* upper arch.
ImplantRecordOf(name, chart, n) ==
    [date |-> SurgeryDate, patientName |-> name, chartNumber |-> chart,
     teethSet |-> SubSeq(upperArch, 1, n), quantity |-> n,
     supplier |-> KoOsstem, productName |-> ProductOsstem,
     isInsurance |-> FALSE]

\* A BoneGraftRecord of parseSurgeryBone with the first n teeth of the upper
\* arch and m products.
BoneRecordOf(name, chart, n, m) ==
    [date |-> SurgeryDate, patientName |-> name, chartNumber |-> chart,
     teethSet |-> SubSeq(upperArch, 1, n), products |-> SubSeq(StoreProducts, 1, m)]

\* The patient cell "name(chart)".
PatientCell(name, chart) == StrCell(name \o Str(<<"(">>) \o chart \o Str(<<")">>))

\* The tooth cell of the first n teeth of the upper arch: empty, "#18",
\* "#18~17", ...
TeethCell(n) ==
    IF n = 0 THEN EmptyCell
    ELSE IF n = 1 THEN StrCell(Str(<<"#">>) \o upperArch[1])
    ELSE StrCell(Str(<<"#">>) \o upperArch[1] \o Str(<<"~">>) \o upperArch[n])

\* qty times the marker and the name of a product, each followed by a comma.
ProductText(product) ==
    Concat([k \in 1..product.qty |-> BoneMarker \o Str(<<" ">>) \o product.name \o Str(<<",">>)])

\* A row that carries an implant and no bone graft.
ImplantRowOf(name, chart, n) ==
    <<StrCell(SurgeryDate), PatientCell(name, chart), TeethCell(n), StrCell(ProductOsstem)>>

\* A row that carries the first m products as bone grafts and no implant.
BoneRowOf(name, chart, n, m) ==
    <<StrCell(SurgeryDate), PatientCell(name, chart), TeethCell(n),
      StrCell(GBROnlyMarker \o Str(<<" ">>)
              \o Concat([k \in 1..m |-> ProductText(StoreProducts[k])]))>>

\* Implant rows that lead with a row without teeth and a row of another
\* patient.
TwoPatientRows ==
    <<ImplantRowOf(NameLee, Chart777, 0), ImplantRowOf(NameLee, Chart777, 1),
      ImplantRowOf(NameKim, Chart12345, 1)>>

\* What parseSurgeryImplant returns for TwoPatientRows.
TwoPatients ==
    <<ImplantRecordOf(NameLee, Chart777, 0), ImplantRecordOf(NameLee, Chart777, 1),
      ImplantRecordOf(NameKim, Chart12345, 1)>>

MainImplantRows ==
    {<<>>, TwoPatientRows} \cup {<<ImplantRowOf(NameKim, Chart12345, n)>> : n \in 1..MaxTeeth}

MainBoneRows ==
    {<<>>} \cup {<<BoneRowOf(NameKim, Chart12345, n, m)>> :
                    n \in 1..MaxTeeth, m \in 1..MaxProducts}

\* The second upload is about the first tooth of the same chart.
SideImplantRows == {<<>>, <<ImplantRowOf(NameLee, Chart12345, 1)>>}
SideBoneRows == {<<>>, <<BoneRowOf(NameLee, Chart12345, 1, 1)>>}

\* A workbook of one sheet.
Workbook(name, rows) == [name |-> name, rows |-> rows]

\* The locals of the upload handler before its first statement: the form
\* fields (each file is <<>> when absent, else <<workbook>>).
Upload(branchName, surgeryFile, insuranceFile) ==
    [pc |-> "start", phase |-> "implant", branchName |-> branchName,
     surgeryFile |-> surgeryFile, sheet |-> <<>>,
     insuranceFile |-> insuranceFile, insMap |-> <<>>,
     implantRecords |-> <<>>, boneRecords |-> <<>>,
     ri |-> 1, ti |-> 1, pi |-> 1, treatmentId |-> 0, count |-> 0,
     implantCount |-> 0, boneCount |-> 0, totalRecords |-> 0,
     errors |-> <<>>, response |-> <<>>]

UploadsIn ==
    {[r \in Requests |->
         IF r = "r1" THEN Upload(BranchA, <<Workbook(SurgerySheetName, mi \o mb)>>, <<>>)
         ELSE Upload(b, <<Workbook(SurgerySheetName, si \o sb)>>, <<>>)] :
        mi \in MainImplantRows, mb \in MainBoneRows,
        b \in {BranchA, BranchB}, si \in SideImplantRows, sb \in SideBoneRows}

\* The surgery sheet of the first upload of the service: implants on teeth
\* 18 and 17 in January and a bone graft on tooth 18 in March.
MarchDate == Str(<<"2","0","2","6","-","0","3","-","0","1">>)
ServiceRows ==
    <<ImplantRowOf(NameKim, Chart12345, 2),
      <<StrCell(MarchDate)>> \o Tail(BoneRowOf(NameKim, Chart12345, 1, 1))>>

\* Its insurance sheet: tooth 18 of the same chart, stage 2 on the day of the
\* implant.
ServiceInsRows ==
    <<<<PatientCell(NameKim, Chart12345), TeethCell(1), EmptyCell,
        StrCell(SurgeryDate), EmptyCell>>>>

\* A sheet name that is neither of the two expected ones.
Sheet1 == Str(<<"S","h","e","e","t","1">>)

\* The second upload of the service: the implant row of the first upload
\* for another branch and without an insurance file, or a request without a
\* branch name whose workbook lacks the sheet.
SecondUploads ==
    {Upload(BranchB, <<Workbook(SurgerySheetName, <<ImplantRowOf(NameKim, Chart12345, 2)>>)>>,
            <<>>),
     Upload(<<>>, <<Workbook(Sheet1, <<ImplantRowOf(NameKim, Chart12345, 2)>>)>>, <<>>)}

\* The uploads of the service: the first with its two files, each with or
\* without the expected sheet.
ServiceUploadsIn ==
    {[r \in Requests |-> IF r = "r1" THEN Upload(BranchA, <<Workbook(sn, ServiceRows)>>, ins)
                         ELSE second] :
        sn \in {SurgerySheetName, Sheet1},
        ins \in {<<>>, <<Workbook(InsuranceSheetName, ServiceInsRows)>>,
                 <<Workbook(Sheet1, ServiceInsRows)>>},
        second \in SecondUploads}

\* The parameters of GET /api/records: none, or the range of February 2026.
NoFilter ==
    [branchName |-> <<>>, patientName |-> <<>>, chartNumber |-> <<>>, startDate |-> <<>>,
     endDate |-> <<>>, supplier |-> <<>>, productName |-> <<>>]
FebruaryStart == Str(<<"2","0","2","6","-","0","2","-","0","1">>)
FebruaryEnd == Str(<<"2","0","2","6","-","0","2","-","2","8">>)
QueryParams ==
    {NoFilter,
     [NoFilter EXCEPT !.startDate = FebruaryStart, !.endDate = FebruaryEnd],
     [NoFilter EXCEPT !.branchName = BranchA, !.patientName = Str(<<"k","i">>),
                      !.supplier = Str(<<"u","r","e">>)]}

\* The arrays of ids of a batch delete.
BatchIds == {<<1>>, <<1, 2>>}

(***************************************************************************)
(* Inputs of the sheet harness: parseInsuranceData, parseSurgeryImplant,   *)
(* parseSurgeryBone on whole sheets                                        *)
(***************************************************************************)

\* Most data rows of a sheet handed to a parser.
MaxSheetRows == 2

\* A second spreadsheet serial, 2026-03-09.
DateNumMarch == NumCell(46090)

\* "Kim(12345) re": text after the chart number.
PatientNoted == StrCell(Str(<<"K","i","m","(","1","2","3","4","5",")"," ","r","e">>))

\* Rows of the insurance sheet: two patient texts of one chart; the tooth
\* written with and without '#', another tooth, and a lone '#'; the stage-2
\* date as text, as two serial numbers, as a Date object, and absent.
SheetInsRows ==
    {<<p, t, EmptyCell, d, EmptyCell>> :
        p \in {PatientKim, PatientNoted},
        t \in {StrCell(Str(<<"#","1","8">>)), StrCell(Str(<<"1","8">>)),
               StrCell(Str(<<"1","7">>)), StrCell(Str(<<"#">>))},
        d \in {DateStr, DateNum, DateNumMarch, DateObj, EmptyCell}}

SheetInsSheets == UNION {[1..n -> SheetInsRows] : n \in 0..MaxSheetRows}

\* Rows of the surgery sheet, well-formed and malformed.
RowGood == <<DateStr, PatientKim, TeethCell(2), StrCell(ProductOsstem)>>
RowSerialDate == <<DateNum, PatientKim, TeethCell(2), StrCell(ProductOsstem)>>
RowNoted == <<DateStr, PatientNoted, TeethCell(1), StrCell(ProductOsstem)>>
RowNoPatient == <<DateStr, EmptyCell, TeethCell(1), StrCell(ProductOsstem)>>
RowGbrOnly == <<DateStr, PatientKim, TeethCell(1), StrCell(NoteGbrBone)>>
RowCrossArch ==
    <<DateStr, PatientKim, StrCell(Str(<<"#","1","1","~","3","1">>)), StrCell(ProductOsstem)>>
RowNoDigit ==
    <<StrCell(Str(<<"s","o","o","n">>)), StrCell(Str(<<"K","i","m">>)), TeethCell(1),
      StrCell(ProductOsstem)>>
RowShort == <<DateStr, PatientKim, TeethCell(1), EmptyCell>>
RowNoTeeth == <<EmptyCell, PatientKim, EmptyCell, StrCell(NoteOsstemBone)>>

SheetRows ==
    {RowGood, RowSerialDate, RowNoted, RowNoPatient, RowGbrOnly, RowCrossArch, RowNoDigit,
     RowShort, RowNoTeeth}

SurgerySheets == UNION {[1..n -> SheetRows] : n \in 0..MaxSheetRows}

\* The insurance sheets that go with a surgery sheet: none, or one row.
PairedInsSheets ==
    {<<>>} \cup {<<<<p, StrCell(Str(<<"1","8">>)), EmptyCell, d, EmptyCell>>>> :
                    p \in {PatientKim, PatientNoted}, d \in {DateStr, DateNumMarch}}

\* The arguments of a call of a parser.
SheetInputs(fn) ==
    CASE fn = "parseInsuranceData" -> SheetInsSheets
      [] fn = "parseSurgeryImplant" ->
            {[sheet |-> sh, insSheet |-> ins] : sh \in SurgerySheets, ins \in PairedInsSheets}
      [] fn = "parseSurgeryBone" -> SurgerySheets

(***************************************************************************)
(* Inputs of the text harness: toHalfWidth, parsePatientInfo,              *)
(* determineSupplier, extractProductName                                   *)
(***************************************************************************)

\* Longest text drawn character by character.
MaxTextLen == 3

\* Longest note drawn token by token.
MaxNoteTokens == 6

\* All texts of at most n characters of an alphabet.
TextsOver(alphabet, n) == UNION {[1..k -> alphabet] : k \in 0..n}

\* Characters at and around the two classes toHalfWidth replaces: the ends
\* and the middle of U+FF01..U+FF5E, their neighbours U+FF00 and U+FF5F, the
\* full-width space, and two characters it leaves alone.
HalfChars ==
    {FullWidthFirst, FullWidthLast, Code("A") + FullWidthOffset, FullWidthFirst - 1,
     FullWidthLast + 1, IdeographicSpace, Code(" "), Code("A")}

\* U+D64D U+AE38 U+B3D9 ( 1 2 3 4 5 ), the example of a patient-info cell.
PatientHong == <<54861, 44600, 46041>> \o Str(<<"(","1","2","3","4","5",")">>)

PatientChars == {Code("K"), Code("1"), Code("2"), Code("("), Code(")"), Code(" ")}

PatientTexts ==
    TextsOver(PatientChars, MaxTextLen + 1)
    \cup {PatientHong, Str(<<"N","o","D","i","g","i","t","s","H","e","r","e">>),
          <<54861, IdeographicSpace>> \o Str(<<"(","7",")"," ">>)}

\* Notes handed to determineSupplier: with several keys of the table, with
\* one, with none, and with the name of an inherited property as the text
\* before the separator.
SupplierTexts ==
    {NoteIzen, NoteOther,
     Str(<<"P","L","A","N"," ","-"," ","I","Z","E","N","O","S","S">>),
     Str(<<"M","e","g","a","g","e","n"," ","O","S","S","T","E","M">>),
     Str(<<" ","D","e","n","t","i","u","m"," "," ","-"," ","S","u","p","e","r"," ","-"," ","X">>),
     Str(<<"D","e","n","t","i","u","m">>),
     Str(<<"c","o","n","s","t","r","u","c","t","o","r">>),
     Str(<<"t","o","S","t","r","i","n","g"," ","-"," ","X">>),
     Str(<<"i","z","e","n">>),
     <<>>}

\* The pieces plain notes are built from: " - " and "/" arise from them.
NoteTokens == {Code("A"), Code(" "), Code("-"), Code("/")}

\* The parts of a note with a size: product text, blanks, diameter, the
\* separator (or a character that is none), length, text after the size and
\* the rest of the note after a slash.
SizeParts ==
    [name : {Str(<<"I","Z","E","N","O","S","S"," ">>), <<>>},
     gap  : {<<>>, Str(<<" ">>)},
     dia  : {Str(<<"5",".","0">>), Str(<<"4",".","2","5">>), Str(<<"0",".","5">>),
             Str(<<"4">>), Str(<<"4",".">>)},
     sep  : {Str(<<"*">>), <<MultiplicationSign>>, Str(<<"x">>), Str(<<"-">>)},
     len  : {Str(<<"1","0">>), Str(<<"8">>), Str(<<"8",".","5">>), Str(<<"1","1",".","9">>),
             Str(<<"1","0","0">>)},
     tail : {<<>>, Str(<<" ","W">>)},
     rest : {<<>>, Str(<<" ","/"," ","e","t","c">>)}]

\* The note of the parts p.
SizeText(p) ==
    p.name \o <<GreekPhi>> \o p.gap \o p.dia \o p.gap \o p.sep \o p.gap \o p.len
    \o p.tail \o p.rest

\* A note with the separator " - " twice before the slash.
NoteTwoDashes ==
    Str(<<"M"," ","-"," ","A"," ","-"," ","B"," ","/"," ","e","t","c">>)

ProductTexts ==
    TextsOver(NoteTokens, MaxNoteTokens) \cup {SizeText(p) : p \in SizeParts}
    \cup {NoteIzen, NoteTwoDashes}

\* The texts handed to each function.
TextInputs(fn) ==
    CASE fn = "toHalfWidth" -> TextsOver(HalfChars, MaxTextLen)
      [] fn = "parsePatientInfo" -> PatientTexts
      [] fn = "determineSupplier" -> SupplierTexts
      [] fn = "extractProductName" -> ProductTexts

(***************************************************************************)
(* The utils harness: one call of a pure function on a drawn input, one    *)
(* specification per function                                              *)
(***************************************************************************)

\* The parsers are not running.
ParserIdle ==
    /\ sheet = <<>> /\ insMap = <<>> /\ pc = "idle" /\ rowIdx = 1
    /\ implantRecords = <<>> /\ boneRecords = <<>>

\* The database is empty and no upload is in flight.
StoreIdle ==
    /\ treatment_records = <<>> /\ implant = <<>> /\ bone_graft = <<>>
    /\ lastId = [treatment_records |-> 0, implant |-> 0, bone_graft |-> 0]
    /\ req = <<>>
    /\ query = [pc |-> "idle"] /\ batch = [pc |-> "idle"]

\* No utils call is under way.
UtilsIdle == ufn = "none" /\ uarg = <<>> /\ ures = <<>> /\ upc = "idle"

TeethInit ==
    /\ ParserIdle
    /\ StoreIdle
    /\ ufn = "expandTeethRange"
    /\ uarg \in TeethTexts
    /\ ures = <<>>
    /\ upc = "call"

CallExpandTeethRange ==
    /\ upc = "call" /\ ufn = "expandTeethRange"
    /\ ures' = expandTeethRange(uarg)
    /\ upc' = "done"
    /\ UNCHANGED <<ufn, uarg>>
    /\ UNCHANGED pvars
    /\ UNCHANGED dvars

SpecTeeth == TeethInit /\ [][CallExpandTeethRange]_vars

BoneInit ==
    /\ ParserIdle
    /\ StoreIdle
    /\ ufn = "extractBoneGraftProducts"
    /\ uarg \in BoneTexts(MaxBoneTokens)
    /\ ures = <<>>
    /\ upc = "call"

CallExtractBoneGraftProducts ==
    /\ upc = "call" /\ ufn = "extractBoneGraftProducts"
    /\ ures' = extractBoneGraftProducts(uarg)
    /\ upc' = "done"
    /\ UNCHANGED <<ufn, uarg>>
    /\ UNCHANGED pvars
    /\ UNCHANGED dvars

SpecBone == BoneInit /\ [][CallExtractBoneGraftProducts]_vars

TextInit ==
    /\ ParserIdle
    /\ StoreIdle
    /\ ufn \in {"toHalfWidth", "parsePatientInfo", "determineSupplier", "extractProductName"}
    /\ uarg \in TextInputs(ufn)
    /\ ures = <<>>
    /\ upc = "call"

CallToHalfWidth ==
    /\ upc = "call" /\ ufn = "toHalfWidth"
    /\ ures' = toHalfWidth(uarg)
    /\ upc' = "done"
    /\ UNCHANGED <<ufn, uarg>>
    /\ UNCHANGED pvars
    /\ UNCHANGED dvars

CallParsePatientInfo ==
    /\ upc = "call" /\ ufn = "parsePatientInfo"
    /\ ures' = parsePatientInfo(uarg)
    /\ upc' = "done"
    /\ UNCHANGED <<ufn, uarg>>
    /\ UNCHANGED pvars
    /\ UNCHANGED dvars

\* determineSupplier(content), vendorMap defaulting to VENDOR_MAP.
CallDetermineSupplier ==
    /\ upc = "call" /\ ufn = "determineSupplier"
    /\ ures' = determineSupplier(uarg, VENDOR_MAP)
    /\ upc' = "done"
    /\ UNCHANGED <<ufn, uarg>>
    /\ UNCHANGED pvars
    /\ UNCHANGED dvars

CallExtractProductName ==
    /\ upc = "call" /\ ufn = "extractProductName"
    /\ ures' = extractProductName(uarg)
    /\ upc' = "done"
    /\ UNCHANGED <<ufn, uarg>>
    /\ UNCHANGED pvars
    /\ UNCHANGED dvars

TextNext ==
    \/ CallToHalfWidth
    \/ CallParsePatientInfo
    \/ CallDetermineSupplier
    \/ CallExtractProductName

SpecText == TextInit /\ [][TextNext]_vars

(***************************************************************************)
(* The parsing of one upload: parseSurgeryImplant, then parseSurgeryBone,  *)
(* on the same sheet, one loop iteration per step                          *)
(***************************************************************************)

PInit ==
    /\ UtilsIdle
    /\ StoreIdle
    /\ sheet \in Sheets
    /\ insMap \in InsMaps
    /\ pc = "implant"
    /\ rowIdx = 1
    /\ implantRecords = <<>>
    /\ boneRecords = <<>>

ParseImplantRow ==
    /\ pc = "implant" /\ rowIdx <= Len(sheet)
    /\ implantRecords' = ImplantRow(implantRecords, sheet[rowIdx], insMap)
    /\ rowIdx' = rowIdx + 1
    /\ UNCHANGED <<sheet, insMap, pc, boneRecords>>
    /\ UNCHANGED uvars
    /\ UNCHANGED dvars

ReturnImplant ==
    /\ pc = "implant" /\ rowIdx > Len(sheet)
    /\ pc' = "bone"
    /\ rowIdx' = 1
    /\ UNCHANGED <<sheet, insMap, implantRecords, boneRecords>>
    /\ UNCHANGED uvars
    /\ UNCHANGED dvars

ParseBoneRow ==
    /\ pc = "bone" /\ rowIdx <= Len(sheet)
    /\ boneRecords' = BoneRow(boneRecords, sheet[rowIdx])
    /\ rowIdx' = rowIdx + 1
    /\ UNCHANGED <<sheet, insMap, pc, implantRecords>>
    /\ UNCHANGED uvars
    /\ UNCHANGED dvars

ReturnBone ==
    /\ pc = "bone" /\ rowIdx > Len(sheet)
    /\ pc' = "done"
    /\ UNCHANGED <<sheet, insMap, rowIdx, implantRecords, boneRecords>>
    /\ UNCHANGED uvars
    /\ UNCHANGED dvars

PNext ==
    \/ ParseImplantRow
    \/ ReturnImplant
    \/ ParseBoneRow
    \/ ReturnBone

Spec == PInit /\ [][PNext]_vars

(***************************************************************************)
(* The sheet harness: one call of a parser on a drawn sheet                *)
(***************************************************************************)

SheetInit ==
    /\ ParserIdle
    /\ StoreIdle
    /\ ufn \in {"parseInsuranceData", "parseSurgeryImplant", "parseSurgeryBone"}
    /\ uarg \in SheetInputs(ufn)
    /\ ures = <<>>
    /\ upc = "call"

CallParseInsuranceData ==
    /\ upc = "call" /\ ufn = "parseInsuranceData"
    /\ ures' = parseInsuranceData(uarg)
    /\ upc' = "done"
    /\ UNCHANGED <<ufn, uarg>>
    /\ UNCHANGED pvars
    /\ UNCHANGED dvars

\* parseSurgeryImplant(sheet, insMap) with the insMap the upload handler
\* builds from the insurance sheet.
CallParseSurgeryImplant ==
    /\ upc = "call" /\ ufn = "parseSurgeryImplant"
    /\ ures' = parseSurgeryImplant(uarg.sheet, parseInsuranceData(uarg.insSheet))
    /\ upc' = "done"
    /\ UNCHANGED <<ufn, uarg>>
    /\ UNCHANGED pvars
    /\ UNCHANGED dvars

CallParseSurgeryBone ==
    /\ upc = "call" /\ ufn = "parseSurgeryBone"
    /\ ures' = parseSurgeryBone(uarg)
    /\ upc' = "done"
    /\ UNCHANGED <<ufn, uarg>>
    /\ UNCHANGED pvars
    /\ UNCHANGED dvars

SheetNext ==
    \/ CallParseInsuranceData
    \/ CallParseSurgeryImplant
    \/ CallParseSurgeryBone

SpecSheet == SheetInit /\ [][SheetNext]_vars

(***************************************************************************)
(* The store under concurrent uploads: every D1 statement is one step      *)
(***************************************************************************)

StoreInit ==
    /\ UtilsIdle
    /\ ParserIdle
    /\ treatment_records = <<>> /\ implant = <<>> /\ bone_graft = <<>>
    /\ lastId = [treatment_records |-> 0, implant |-> 0, bone_graft |-> 0]
    /\ req \in UploadsIn
    /\ query = [pc |-> "idle"] /\ batch = [pc |-> "idle"]

StoreNext ==
    \E r \in Requests :
        \/ StartUpload(r)
        \/ FindTreatmentRecord(r)
        \/ CreateTreatmentRecord(r)
        \/ InsertImplant(r)
        \/ InsertBoneGraft(r)

SpecStore == StoreInit /\ [][StoreNext]_vars

(***************************************************************************)
(* The service: uploads with their files, statements that fail and         *)
(* deletions, every D1 statement one step                                  *)
(***************************************************************************)

ServiceInit ==
    /\ UtilsIdle
    /\ ParserIdle
    /\ treatment_records = <<>> /\ implant = <<>> /\ bone_graft = <<>>
    /\ lastId = [treatment_records |-> 0, implant |-> 0, bone_graft |-> 0]
    /\ req \in ServiceUploadsIn
    /\ query = [pc |-> "idle"] /\ batch = [pc |-> "idle"]

ServiceNext ==
    \/ \E r \in Requests :
          \/ StartUpload(r)
          \/ FindTreatmentRecord(r)
          \/ CreateTreatmentRecord(r)
          \/ InsertImplant(r)
          \/ InsertBoneGraft(r)
          \/ StatementFails(r)
    \/ \E id \in 1..(lastId.treatment_records + 1) : DeleteRecord(id)
    \/ \E recordIds \in BatchIds : StartBatchDelete(recordIds)
    \/ BatchDeleteOne
    \/ BatchDeleteFails
    \/ BatchReturn

SpecService == ServiceInit /\ [][ServiceNext]_vars

(***************************************************************************)
(* The queries: GET /api/records while the uploads write                   *)
(***************************************************************************)

QueryNext ==
    \/ \E r \in Requests :
          \/ StartUpload(r)
          \/ FindTreatmentRecord(r)
          \/ CreateTreatmentRecord(r)
          \/ InsertImplant(r)
          \/ InsertBoneGraft(r)
    \/ \E p \in QueryParams : QueryRecords(p)
    \/ QueryBoneGrafts
    \/ QueryImplants
    \/ QueryReturn

SpecQuery == ServiceInit /\ [][QueryNext]_vars

(***************************************************************************)
(* The same upload twice: the second request is posted after the first     *)
(* has been answered                                                       *)
(***************************************************************************)

\* The first upload: a surgery sheet for branch A, no insurance file.
RepeatUploadsIn ==
    {[r \in {"r1"} |-> Upload(BranchA, <<Workbook(SurgerySheetName, mi \o mb)>>, <<>>)] :
        mi \in MainImplantRows, mb \in MainBoneRows}

RepeatInit ==
    /\ UtilsIdle
    /\ ParserIdle
    /\ treatment_records = <<>> /\ implant = <<>> /\ bone_graft = <<>>
    /\ lastId = [treatment_records |-> 0, implant |-> 0, bone_graft |-> 0]
    /\ req \in RepeatUploadsIn
    /\ query = [pc |-> "idle"] /\ batch = [pc |-> "idle"]

\* The client posts the form of the first upload once more.
UploadAgain ==
    /\ DOMAIN req = {"r1"}
    /\ req["r1"].pc = "done"
    /\ req' = [r \in Requests |->
                  IF r = "r1" THEN req["r1"]
                  ELSE Upload(req["r1"].branchName, req["r1"].surgeryFile,
                              req["r1"].insuranceFile)]
    /\ UNCHANGED <<treatment_records, implant, bone_graft, lastId, query, batch>>
    /\ UNCHANGED uvars
    /\ UNCHANGED pvars

RepeatNext ==
    \/ \E r \in DOMAIN req :
          \/ StartUpload(r)
          \/ FindTreatmentRecord(r)
          \/ CreateTreatmentRecord(r)
          \/ InsertImplant(r)
          \/ InsertBoneGraft(r)
    \/ UploadAgain

SpecRepeat == RepeatInit /\ [][RepeatNext]_vars

(***************************************************************************)
(* Claims about expandTeethRange                                           *)
(***************************************************************************)

Tilde == Str(<<"~">>)

TeethDone == upc = "done" /\ ufn = "expandTeethRange"

\* The identifiers at the positions lo..hi (1-based) of an arch ordering.
Span(arch, i, j) == {arch[k] : k \in Min(i, j)..Max(i, j)}

\* C4: for identifiers A, B of the same arch ordering, expandTeethRange on
\* "A~B" returns exactly the identifiers at the positions between A and B
\* inclusive, each once, and "B~A" expands to the same set.
C4_SameArchSpan ==
    TeethDone =>
        \A arch \in {upperArch, lowerArch} : \A i, j \in 1..Len(arch) :
            uarg = arch[i] \o Tilde \o arch[j] =>
                /\ Range(ures) = Span(arch, i, j)
                /\ Len(ures) = Max(i, j) - Min(i, j) + 1
                /\ Range(expandTeethRange(arch[j] \o Tilde \o arch[i])) = Range(ures)

\* C4 witness: "35~37", whose first endpoint follows the second in lowerArch,
\* has been expanded to 37, 36, 35.
C4_Witness ==
    /\ TeethDone
    /\ uarg = Str(<<"3","5","~","3","7">>)
    /\ ures = <<Str(<<"3","7">>), Str(<<"3","6">>), Str(<<"3","5">>)>>

\* C5: a range "A~B" with A in one arch ordering and B in the other expands
\* to the empty set.
C5_CrossArchEmpty ==
    TeethDone =>
        \A a \in Range(upperArch), b \in Range(lowerArch) :
            (uarg = a \o Tilde \o b \/ uarg = b \o Tilde \o a) => ures = <<>>

(***************************************************************************)
(* Claims about extractBoneGraftProducts                                   *)
(***************************************************************************)

BoneDone == upc = "done" /\ ufn = "extractBoneGraftProducts"

\* The positions at which the marker occurs in s.
MarkerAt(s) == {p \in 1..Len(s) : IndexFrom(s, BoneMarker, p) = p}

\* The text after the marker at p up to the next comma or slash (or the end
\* of the text), trimmed.
NameAfter(s, p) ==
    LET q == p + Len(BoneMarker)
    IN  Trim(SubSeq(s, q, q + RunNotSeparator(s, q) - 1))

\* A marker occurrence that lies inside the name following an earlier marker:
\* no comma or slash separates it from that marker.
Nested(s, p) ==
    \E r \in MarkerAt(s) :
        /\ r < p
        /\ \A k \in (r + Len(BoneMarker))..(p - 1) : NotSeparator(s[k])

\* C8 as stated: every product name of the result is mapped to the number of
\* marker occurrences of the text that are followed by that name up to the
\* next comma or slash.
C8_CountsEveryMarker ==
    BoneDone =>
        \A e \in Range(ures) :
            e.qty = Cardinality({p \in MarkerAt(uarg) : NameAfter(uarg, p) = e.name})

\* C8 amended: the product names of the result are the non-empty names that
\* follow a marker occurrence not nested in an earlier name, each mapped to
\* the number of such occurrences followed by it, each name listed once.
C8_CountsOuterMarkers ==
    BoneDone =>
        LET outer == {p \in MarkerAt(uarg) : ~Nested(uarg, p)}
        IN  /\ {e.name : e \in Range(ures)} = {NameAfter(uarg, p) : p \in outer} \ {<<>>}
            /\ \A e \in Range(ures) :
                  e.qty = Cardinality({p \in outer : NameAfter(uarg, p) = e.name})
            /\ \A i, j \in 1..Len(ures) : ures[i].name = ures[j].name => i = j

\* C8 witness: the note with the marker twice before BoneX has been mapped to
\* BoneX -> 2.
C8_Witness ==
    /\ BoneDone
    /\ uarg = BoneXTwice
    /\ ures = <<[name |-> Str(<<"B","o","n","e","X">>), qty |-> 2]>>

(***************************************************************************)
(* Claims about parseSurgeryImplant and parseSurgeryBone                   *)
(***************************************************************************)

\* The loop of parseSurgeryImplant / parseSurgeryBone is about to process
\* the row sheet[rowIdx].
AtImplantRow == pc = "implant" /\ rowIdx <= Len(sheet)
AtBoneRow == pc = "bone" /\ rowIdx <= Len(sheet)

\* What the claims say of a row: its half-width-normalized note, its expanded
\* teeth, its InsuranceIndex entry, whether it has a patient-info value and
\* whether it has a surgical-note cell (row.length >= 4).
RowNote(row) == toHalfWidth(CellString(row[4]))
RowTeeth(row) == expandTeethRange(CellString(row[3]))
RowInsTeeth(row) ==
    InsGet(insMap, LookupKey(DateText(row[1]),
                             parsePatientInfo(CellString(row[2])).chartNumber))
RowInsured(row) == Range(RowTeeth(row)) \cap Range(RowInsTeeth(row)) # {}
RowHasPatient(row) == CellString(row[2]) # <<>>
RowHasNote(row) == row[4].t # "empty"
RowHasVendorKey(row) ==
    \E k \in 1..Len(VENDOR_MAP) : Includes(RowNote(row), VENDOR_MAP[k].key)

\* C1: a row whose normalized note contains the GBR-only marker adds no
\* ImplantRecord, whatever the InsuranceIndex, the teeth and the date are.
C1_GbrOnlyNeverEmitted ==
    [][(AtImplantRow /\ Includes(RowNote(sheet[rowIdx]), GBROnlyMarker))
          => implantRecords' = implantRecords]_vars

C3_InsuranceIffSharedTooth ==
    \A k \in 1..Len(implantRecords) :
        LET rec == implantRecords[k]
            keyed == {e \in Range(insMap) : e.key = LookupKey(rec.date, rec.chartNumber)}
        IN  rec.isInsurance <=>
                \E e \in keyed : \E t \in Range(rec.teethSet) : t \in Range(e.teeth)

\* C3 witness: a record of three teeth is insured by an index entry, and the
\* index is not empty.
C3_Witness ==
    /\ Len(implantRecords) = 1
    /\ implantRecords[1].isInsurance
    /\ Len(implantRecords[1].teethSet) = 3
    /\ insMap # <<>>

\* C9 as stated: parseSurgeryBone emits a record for a row iff the note of
\* the row yields at least one bone-graft product.
C9_EmittedIffProducts ==
    [][AtBoneRow =>
          ((boneRecords' # boneRecords)
              <=> extractBoneGraftProducts(CellString(sheet[rowIdx][4])) # <<>>)]_vars

\* C9 amended: parseSurgeryBone emits a record for a row iff the row has a
\* patient-info value and its note yields at least one bone-graft product;
\* the record is appended, and every emitted record has a non-empty products
\* map.
C9_EmittedIffPatientAndProducts ==
    [][AtBoneRow =>
          /\ (boneRecords' # boneRecords)
                <=> (/\ RowHasPatient(sheet[rowIdx])
                     /\ extractBoneGraftProducts(CellString(sheet[rowIdx][4])) # <<>>)
          /\ boneRecords' # boneRecords =>
                /\ Len(boneRecords') = Len(boneRecords) + 1
                /\ SubSeq(boneRecords', 1, Len(boneRecords)) = boneRecords
          /\ \A k \in 1..Len(boneRecords') : boneRecords'[k].products # <<>>]_vars

\* C9 witness: the first row, with the marker twice before BoneX, has been
\* emitted with BoneX -> 2.
C9_Witness ==
    /\ pc = "bone" /\ rowIdx = 2
    /\ Len(boneRecords) = 1
    /\ boneRecords[1].products = <<[name |-> Str(<<"B","o","n","e","X">>), qty |-> 2]>>

\* The first row holds the note of the example, is not insured, and has been
\* emitted.
IzenRowEmitted ==
    /\ pc = "implant" /\ rowIdx = 2
    /\ sheet[1][4] = StrCell(NoteIzen)
    /\ ~RowInsured(sheet[1])
    /\ Len(implantRecords) = 1

\* C10 as stated: the supplier of the record of the example note is the
\* value the alias table maps from the key "IZEN".
C10_SupplierOfKeyIzen ==
    IzenRowEmitted =>
        implantRecords[1].supplier = VendorLookup(VENDOR_MAP, Str(<<"I","Z","E","N">>))

\* C10 amended: the supplier of the record of the example note is the value
\* the alias table maps from "IZENOSS", its first key in table order that is
\* a substring of the note: the text "IZEN".
C10_SupplierOfKeyIzenoss ==
    IzenRowEmitted =>
        /\ implantRecords[1].supplier
              = VendorLookup(VENDOR_MAP, Str(<<"I","Z","E","N","O","S","S">>))
        /\ implantRecords[1].supplier = Str(<<"I","Z","E","N">>)

\* C10 witness: the example row has been emitted with the supplier "IZEN".
C10_Witness == IzenRowEmitted /\ implantRecords[1].supplier = Str(<<"I","Z","E","N">>)

(***************************************************************************)
(* Claims about the store                                                  *)
(***************************************************************************)

\* Every upload has returned.
AllDone == DOMAIN req = Requests /\ \A r \in Requests : req[r].pc = "done"

\* The treatment_records row an implant or bone_graft row refers to.
TreatmentOf(row) ==
    CHOOSE t \in Range(treatment_records) : t.id = row.treatment_record_id

\* What a row of implant or bone_graft says: whose tooth, when, what, how many.
RowValue(row) ==
    [branch |-> TreatmentOf(row).branch_name, chart |-> TreatmentOf(row).chart_number,
     tooth |-> TreatmentOf(row).tooth_number, date |-> row.date,
     product |-> row.product_name, quantity |-> row.quantity]

\* The (upload, record, tooth) triples of the implant records handed to
\* saveImplantRecords.
ImplantSlots(r) ==
    UNION {{<<r, ri, ti>> : ti \in 1..Len(req[r].implantRecords[ri].teethSet)} :
              ri \in 1..Len(req[r].implantRecords)}

\* The row the claim expects for a triple: quantity 1.
ImplantSlotValue(sl) ==
    LET rec == req[sl[1]].implantRecords[sl[2]]
    IN  [branch |-> req[sl[1]].branchName, chart |-> rec.chartNumber,
         tooth |-> rec.teethSet[sl[3]], date |-> rec.date,
         product |-> rec.productName, quantity |-> 1]

\* The (upload, record, tooth, product) tuples of the bone-graft records
\* handed to saveBoneGraftRecords.
BoneSlots(r) ==
    UNION {{<<r, ri, ti, pi>> : ti \in 1..Len(req[r].boneRecords[ri].teethSet),
                                pi \in 1..Len(req[r].boneRecords[ri].products)} :
              ri \in 1..Len(req[r].boneRecords)}

\* The row the claim expects for a tuple: the whole occurrence count of the
\* product on every tooth.
BoneSlotValue(sl) ==
    LET rec == req[sl[1]].boneRecords[sl[2]]
    IN  [branch |-> req[sl[1]].branchName, chart |-> rec.chartNumber,
         tooth |-> rec.teethSet[sl[3]], date |-> rec.date,
         product |-> rec.products[sl[4]].name, quantity |-> rec.products[sl[4]].qty]

AllImplantSlots == UNION {ImplantSlots(r) : r \in Requests}
AllBoneSlots == UNION {BoneSlots(r) : r \in Requests}

\* The rows of implant are, as a multiset of values, the expected ones.
ImplantRowsAsExpected ==
    /\ Len(implant) = Cardinality(AllImplantSlots)
    /\ \A sl \in AllImplantSlots :
          Cardinality({k \in 1..Len(implant) : RowValue(implant[k]) = ImplantSlotValue(sl)}) =
          Cardinality({other \in AllImplantSlots : ImplantSlotValue(other) = ImplantSlotValue(sl)})

\* The rows of bone_graft are, as a multiset of values, the expected ones.
BoneRowsAsExpected ==
    /\ Len(bone_graft) = Cardinality(AllBoneSlots)
    /\ \A sl \in AllBoneSlots :
          Cardinality({k \in 1..Len(bone_graft) : RowValue(bone_graft[k]) = BoneSlotValue(sl)}) =
          Cardinality({other \in AllBoneSlots : BoneSlotValue(other) = BoneSlotValue(sl)})

\* C6: once the uploads have returned, the implant table holds one row of
\* quantity 1 for every tooth of every implant record, the bone_graft table
\* holds one row for every tooth and product of every bone-graft record with
\* the occurrence count of the product as its quantity (N x M rows for a
\* record of N teeth and M products), and the count each save function
\* returned is the number of rows it inserted.
C6_RowsPerToothAndProduct ==
    AllDone =>
        /\ ImplantRowsAsExpected
        /\ BoneRowsAsExpected
        /\ \A r \in Requests :
              /\ req[r].implantCount = Cardinality(ImplantSlots(r))
              /\ req[r].boneCount = Cardinality(BoneSlots(r))
              /\ req[r].totalRecords = req[r].implantCount + req[r].boneCount

\* An upload of one implant record with two teeth and one bone-graft record
\* with two teeth and two products has returned: 2 and 4 rows.
C6_Witness ==
    /\ AllDone
    /\ req["r1"].implantRecords = <<ImplantRecordOf(NameKim, Chart12345, 2)>>
    /\ req["r1"].boneRecords = <<BoneRecordOf(NameKim, Chart12345, 2, 2)>>
    /\ req["r1"].implantCount = 2 /\ req["r1"].boneCount = 4
    /\ Len(bone_graft) >= 4
    /\ \E k \in 1..Len(bone_graft) : bone_graft[k].quantity = 2

\* C7: treatment_records holds at most one row per (branch_name,
\* chart_number, tooth_number), whatever the interleaving of the uploads.
C7_OneRowPerTooth ==
    \A i, j \in 1..Len(treatment_records) :
        (/\ treatment_records[i].branch_name = treatment_records[j].branch_name
         /\ treatment_records[i].chart_number = treatment_records[j].chart_number
         /\ treatment_records[i].tooth_number = treatment_records[j].tooth_number)
        => i = j

(***************************************************************************)
(* Claims about endpoints that are in no arch ordering                     *)
(***************************************************************************)

\* C18: a range "A~B" in which A or B is an identifier of neither arch
\* ordering expands to the empty set.
C18_UnknownEndpointEmpty ==
    TeethDone =>
        \A a \in Endpoints, b \in Endpoints :
            (uarg = a \o Tilde \o b /\ (a \notin ArchIds \/ b \notin ArchIds))
                => ures = <<>>

(***************************************************************************)
(* Claims about toHalfWidth, parsePatientInfo, determineSupplier and       *)
(* extractProductName                                                      *)
(***************************************************************************)

TextDone(fn) == upc = "done" /\ ufn = fn

\* s without its leading and trailing white space.
Trimmed(s) ==
    LET ns == {i \in 1..Len(s) : ~IsSpace(s[i])}
    IN  IF ns = {} THEN <<>>
        ELSE SubSeq(s, CHOOSE i \in ns : \A j \in ns : i <= j,
                       CHOOSE i \in ns : \A j \in ns : i >= j)

\* The positions at which sep occurs in s.
OccursAt(s, sep) ==
    {k \in 1..(Len(s) - Len(sep) + 1) : SubSeq(s, k, k + Len(sep) - 1) = sep}

\* The position of the first occurrence of sep in s, Len(s) + 1 when none.
FirstAt(s, sep) ==
    IF OccursAt(s, sep) = {} THEN Len(s) + 1
    ELSE CHOOSE k \in OccursAt(s, sep) : \A j \in OccursAt(s, sep) : k <= j

\* The text before and after the first occurrence of sep in s.
TextBefore(s, sep) == SubSeq(s, 1, FirstAt(s, sep) - 1)
TextAfter(s, sep) == SubSeq(s, FirstAt(s, sep) + Len(sep), Len(s))

RECURSIVE NoParens(_)
\* s with every "(" and ")" removed.
NoParens(s) ==
    IF s = <<>> THEN <<>>
    ELSE IF Head(s) \in {Code("("), Code(")")} THEN NoParens(Tail(s))
    ELSE <<Head(s)>> \o NoParens(Tail(s))

\* round(d x 10) for the diameters of SizeParts, written out.
DiaCode(d) ==
    CASE d = Str(<<"5",".","0">>) -> Str(<<"5","0">>)
      [] d = Str(<<"4",".","2","5">>) -> Str(<<"4","3">>)
      [] d = Str(<<"0",".","5">>) -> Str(<<"5">>)
      [] d = Str(<<"4">>) -> Str(<<"4","0">>)
      [] d = Str(<<"4",".">>) -> Str(<<"4","0">>)

\* floor(l) padded to two digits for the lengths of SizeParts, written out.
LenCode(l) ==
    CASE l = Str(<<"1","0">>) -> Str(<<"1","0">>)
      [] l = Str(<<"8">>) -> Str(<<"0","8">>)
      [] l = Str(<<"8",".","5">>) -> Str(<<"0","8">>)
      [] l = Str(<<"1","1",".","9">>) -> Str(<<"1","1">>)
      [] l = Str(<<"1","0","0">>) -> Str(<<"1","0","0">>)

\* The notes of SizeParts that hold the size pattern, each with the product
\* name the claim gives it: the text around the pattern, a blank, the code.
SizeCases ==
    {<<SizeText(p), Trimmed(p.name \o p.tail) \o Str(<<" ">>) \o DiaCode(p.dia) \o LenCode(p.len)>> :
        p \in {q \in SizeParts : q.sep # Str(<<"-">>)}}

\* The notes of SizeParts without the pattern: "-" is no separator.
NoSizeTexts == {SizeText(p) : p \in {q \in SizeParts : q.sep = Str(<<"-">>)}}

C12_SplitAtFirstDigit ==
    TextDone("parsePatientInfo") =>
        LET ds == {i \in 1..Len(uarg) : uarg[i] \in Code("0")..Code("9")}
        IN  IF ds = {}
            THEN ures = [name |-> uarg, chartNumber |-> <<>>]
            ELSE LET k == CHOOSE i \in ds : \A j \in ds : i <= j
                 IN  ures = [name |-> Trimmed(NoParens(SubSeq(uarg, 1, k - 1))),
                             chartNumber |-> Trimmed(NoParens(SubSeq(uarg, k, Len(uarg))))]

\* C12 witness: the example cell has been split into the name and "12345".
C12_Witness ==
    /\ TextDone("parsePatientInfo")
    /\ uarg = PatientHong
    /\ ures = [name |-> <<54861, 44600, 46041>>, chartNumber |-> Str(<<"1","2","3","4","5">>)]

\* C13: toHalfWidth of a result of toHalfWidth is that result: no character
\* of a result is in U+FF01..U+FF5E or is U+3000.
C13_Idempotent ==
    TextDone("toHalfWidth") =>
        /\ toHalfWidth(ures) = ures
        /\ \A i \in 1..Len(ures) :
              ures[i] \notin FullWidthFirst..FullWidthLast /\ ures[i] # IdeographicSpace

\* C13 witness: a full-width letter, a full-width space and a full-width
\* exclamation mark have been folded to "A !".
C13_Witness ==
    /\ TextDone("toHalfWidth")
    /\ uarg = <<Code("A") + FullWidthOffset, IdeographicSpace, FullWidthFirst>>
    /\ ures = Str(<<"A"," ","!">>)

\* C19: determineSupplier returns the value of the first key of the alias
\* table, in table order, that is a substring of the note; when no key is a
\* substring it returns the trimmed text before the first " - ".
C19_FirstKeyElseVerbatim ==
    TextDone("determineSupplier") =>
        LET ks == {k \in 1..Len(VENDOR_MAP) : OccursAt(uarg, VENDOR_MAP[k].key) # {}}
        IN  IF ks # {}
            THEN ures = VENDOR_MAP[CHOOSE k \in ks : \A j \in ks : k <= j].value
            ELSE ures = Trimmed(TextBefore(uarg, DashSep))

\* C20 as stated: without a size, the product name is the text before the
\* first "/", or what follows the first " - " in that text when it has one.
C20_AfterFirstDash ==
    (TextDone("extractProductName") /\ GreekPhi \notin Range(uarg)) =>
        LET pre == TextBefore(uarg, Str(<<"/">>))
        IN  ures = IF OccursAt(pre, DashSep) # {} THEN TextAfter(pre, DashSep) ELSE pre

\* C20 amended: without a size, the product name is the trimmed text before
\* the first "/", or, when that trimmed text holds " - ", what follows its
\* first " - ", trimmed.
C20_TrimmedAfterFirstDash ==
    (TextDone("extractProductName") /\ GreekPhi \notin Range(uarg)) =>
        LET pre == Trimmed(TextBefore(uarg, Str(<<"/">>)))
        IN  ures = IF OccursAt(pre, DashSep) # {} THEN Trimmed(TextAfter(pre, DashSep)) ELSE pre

\* C20 witness: the note with " - " twice has given "A - B".
C20_Witness ==
    /\ TextDone("extractProductName")
    /\ uarg = NoteTwoDashes
    /\ ures = Str(<<"A"," ","-"," ","B">>)

(***************************************************************************)
(* Claims about POST /api/upload and the store under failures and          *)
(* deletions                                                               *)
(***************************************************************************)

\* A file was uploaded and its workbook has no sheet of the expected name.
LacksSheet(file, name) == file # <<>> /\ file[1].name # name

\* The answer says success = false and one of its errors has the name of
\* the sheet in quotes.
ReportsMissing(response, name) ==
    /\ response.success = FALSE
    /\ \E k \in 1..Len(response.errors) :
          Includes(response.errors[k], Str(<<"'">>) \o name \o Str(<<"'">>))

\* The treatment_records rows of the branch of an upload; the two uploads
\* of the service write to two branches.
RowsOfBranch(r) ==
    {k \in 1..Len(treatment_records) : treatment_records[k].branch_name = req[r].branchName}

\* Nothing was parsed from the surgery file of an upload, and nothing saved.
NothingFromSurgeryFile(r) ==
    /\ req[r].implantRecords = <<>> /\ req[r].boneRecords = <<>>
    /\ req[r].response.recordsProcessed = 0
    /\ RowsOfBranch(r) = {}

\* Nothing was parsed from the insurance file of an upload: the index is
\* empty and no implant is marked as insured.
NothingFromInsuranceFile(r) ==
    /\ req[r].insMap = <<>>
    /\ \A k \in 1..Len(req[r].implantRecords) : ~req[r].implantRecords[k].isInsurance
    /\ \A k \in 1..Len(implant) :
          TreatmentOf(implant[k]).branch_name = req[r].branchName => implant[k].is_insurance = 0

\* What the claim says of an upload that has answered.
MissingSheetsReported(r) ==
    /\ LacksSheet(req[r].surgeryFile, SurgerySheetName) =>
          ReportsMissing(req[r].response, SurgerySheetName) /\ NothingFromSurgeryFile(r)
    /\ LacksSheet(req[r].insuranceFile, InsuranceSheetName) =>
          ReportsMissing(req[r].response, InsuranceSheetName) /\ NothingFromInsuranceFile(r)

\* C14 as stated: when an uploaded workbook lacks its expected sheet, POST
\* /api/upload answers with success = false and an error message that names
\* the expected sheet, and no record is parsed or persisted from that file.
C14_MissingSheetReported ==
    \A r \in DOMAIN req : req[r].pc = "done" => MissingSheetsReported(r)

\* C14, amended: the same for every request that has a branch name (a
\* request without one is answered before its files are read).
C14_MissingSheetReportedWithBranch ==
    \A r \in DOMAIN req :
        req[r].pc = "done" /\ req[r].branchName # <<>> => MissingSheetsReported(r)

\* The first upload has answered with the two errors of its two workbooks,
\* neither of which has its sheet, while the second upload has saved rows.
C14_Witness ==
    /\ AllDone
    /\ LacksSheet(req["r1"].surgeryFile, SurgerySheetName)
    /\ LacksSheet(req["r1"].insuranceFile, InsuranceSheetName)
    /\ Len(req["r1"].response.errors) = 2
    /\ req["r1"].response.status = 400
    /\ req["r2"].response.success /\ req["r2"].response.recordsProcessed = 2

\* A save function of the upload has thrown: the answer carries the error of
\* the catch around the surgery sheet.
SaveFailed(r) ==
    /\ req[r].pc = "done"
    /\ \E k \in 1..Len(req[r].errors) : Includes(req[r].errors[k], SurgeryError)

\* C15: saving an upload is transactional: when saveImplantRecords or
\* saveBoneGraftRecords fails at some insert, no treatment_records, implant
\* or bone_graft row written earlier by the same upload remains in the
\* database.
C15_FailedSaveLeavesNothing ==
    \A r \in DOMAIN req : SaveFailed(r) => RowsOfBranch(r) = {}

\* C16: after any sequence of uploads and deletions (deleteTreatmentRecord,
\* deleteTreatmentRecordsBatch), every bone_graft and implant row references
\* an existing treatment_records row.
C16_NoOrphanRows ==
    /\ \A k \in 1..Len(implant) : ForeignKeyHolds(implant[k].treatment_record_id)
    /\ \A k \in 1..Len(bone_graft) : ForeignKeyHolds(bone_graft[k].treatment_record_id)

\* A batch delete has deleted two treatment records, implant rows went with
\* them, and an implant row of a third record is still there.
C16_Witness ==
    /\ batch.pc = "return" /\ batch.success = 2
    /\ Len(treatment_records) = lastId.treatment_records - 2
    /\ Len(implant) < lastId.implant
    /\ implant # <<>>

(***************************************************************************)
(* Claims about queryTreatmentRecords                                      *)
(***************************************************************************)

\* A date within the range of the query.
InRange(date, p) == TextLeq(p.startDate, date) /\ TextLeq(date, p.endDate)

\* C17: when queryTreatmentRecords is called with both start_date and
\* end_date, every treatment record it returns has at least one bone_graft
\* or implant entry whose date d satisfies start_date <= d <= end_date.
C17_ReturnedRecordsInRange ==
    (query.pc = "return" /\ query.params.startDate # <<>> /\ query.params.endDate # <<>>) =>
        \A k \in 1..Len(query.views) :
            \/ \E e \in query.views[k].bone_graft : InRange(e.date, query.params)
            \/ \E e \in query.views[k].implant : InRange(e.date, query.params)

(***************************************************************************)
(* Claims about the parsers on whole sheets                                *)
(***************************************************************************)

\* The tooth identifier of an insurance row: the text of its second cell
\* without its first '#' and without white space around it.
ToothIdOf(row) ==
    LET text == IF row[2].t = "str" THEN row[2].v ELSE <<>>
    IN  Trimmed(TextBefore(text, Str(<<"#">>)) \o TextAfter(text, Str(<<"#">>)))

\* An insurance row with a stage-2 date and a tooth identifier.
InsRowCounts(row) == row[4].t # "empty" /\ ToothIdOf(row) # <<>>

\* The key of an insurance row: the date text and the chart number.
InsKeyOf(row) == LookupKey(DateText(row[4]), FirstDigitRun(CellString(row[1])))

\* The teeth of the counting rows under a key, in sheet order.
TeethUnder(rows, key) ==
    LET at == SelectSeq([i \in 1..Len(rows) |-> i],
                        LAMBDA i : InsRowCounts(rows[i]) /\ InsKeyOf(rows[i]) = key)
    IN  [k \in 1..Len(at) |-> ToothIdOf(rows[at[k]])]

\* C21: parseInsuranceData skips every row with a missing stage-2 date or a
\* missing tooth identifier, and for every other data row appends the row's
\* tooth identifier to the sequence stored under the row's (date, chart
\* number) key: each sequence lists the teeth of the rows sharing the key in
\* sheet order with duplicates kept, and there is no other key.
C21_TeethAppendedInOrder ==
    TextDone("parseInsuranceData") =>
        /\ \A i \in 1..Len(uarg) :
              InsRowCounts(uarg[i]) =>
                  InsGet(ures, InsKeyOf(uarg[i])) = TeethUnder(uarg, InsKeyOf(uarg[i]))
        /\ \A k \in 1..Len(ures) :
              /\ ures[k].teeth = TeethUnder(uarg, ures[k].key)
              /\ ures[k].teeth # <<>>
        /\ \A j, k \in 1..Len(ures) : ures[j].key = ures[k].key => j = k

\* Two rows of one patient and one date name tooth 18, once as '#18' and
\* once as '18': one key with the tooth twice.
C21_Witness ==
    /\ TextDone("parseInsuranceData")
    /\ Len(uarg) = 2
    /\ uarg[1][2] # uarg[2][2]
    /\ Len(ures) = 1
    /\ ures[1].teeth = <<Str(<<"1","8">>), Str(<<"1","8">>)>>

(***************************************************************************)
(* Claims about the outcome of a row of parseSurgeryImplant                *)
(***************************************************************************)

\* The classification of a row resolves to GBR-only: its note has the marker
\* and the row is not insured.
RowIsGbrOnly(row) == Includes(RowNote(row), GBROnlyMarker) /\ ~RowInsured(row)

\* The step of a row has emitted one record after the earlier ones, or has
\* left the records as they were.
RowEmitted ==
    /\ Len(implantRecords') = Len(implantRecords) + 1
    /\ SubSeq(implantRecords', 1, Len(implantRecords)) = implantRecords
RowDiscarded == implantRecords' = implantRecords

\* C22 as stated: parseSurgeryImplant ends each data row in exactly one of
\* three outcomes: emitted, discarded as GBR-only, or discarded for lack of
\* a patient-info value; a row that has a patient-info value and is not
\* GBR-only is always emitted.
C22_ThreeOutcomes ==
    [][AtImplantRow =>
          /\ RowEmitted \/ RowDiscarded
          /\ RowDiscarded => (RowIsGbrOnly(sheet[rowIdx]) \/ ~RowHasPatient(sheet[rowIdx]))
          /\ (RowHasPatient(sheet[rowIdx]) /\ ~RowIsGbrOnly(sheet[rowIdx])) => RowEmitted]_vars

\* C22 amended: there is a fourth outcome, the row of fewer than four cells
\* (no surgical-note cell), which is discarded; a row that has a
\* patient-info value and a surgical-note cell and is not GBR-only is always
\* emitted, and no other row is.
C22_FourOutcomes ==
    [][AtImplantRow =>
          /\ RowEmitted \/ RowDiscarded
          /\ RowEmitted <=> (/\ RowHasNote(sheet[rowIdx])
                             /\ RowHasPatient(sheet[rowIdx])
                             /\ ~RowIsGbrOnly(sheet[rowIdx]))]_vars

\* A row with a patient-info value and the note "ABC - Prod", not insured,
\* has been emitted.
C22_Witness ==
    /\ pc = "implant" /\ rowIdx = 2
    /\ RowHasPatient(sheet[1]) /\ ~RowInsured(sheet[1])
    /\ RowNote(sheet[1]) = NoteOther
    /\ Len(implantRecords) = 1
    /\ ~implantRecords[1].isInsurance

\* The rows of a sheet after row k.
RowsAfter(rows, k) == SubSeq(rows, k + 1, Len(rows))

\* tail is the end of whole.
EndsWith(whole, tail) ==
    /\ Len(tail) <= Len(whole)
    /\ SubSeq(whole, Len(whole) - Len(tail) + 1, Len(whole)) = tail

\* The InsuranceIndex of the call of parseSurgeryImplant.
CallInsMap == parseInsuranceData(uarg.insSheet)

\* C23: parseSurgeryImplant, parseSurgeryBone and parseInsuranceData raise
\* no exception for any malformed data row (unparseable date, unmatched or
\* cross-arch tooth range, patient info without a digit, empty cells): the
\* call returns, a row yields at most one record, and all later rows of the
\* sheet are still processed: whatever row k is, the records of the rows
\* after it end the result, and every insurance row with a date and a tooth
\* is in the index whatever rows precede it.
C23_LaterRowsProcessed ==
    /\ TextDone("parseSurgeryImplant") =>
          /\ Len(ures) <= Len(uarg.sheet)
          /\ \A k \in 0..Len(uarg.sheet) :
                /\ EndsWith(ures, parseSurgeryImplant(RowsAfter(uarg.sheet, k), CallInsMap))
                /\ Len(ures) <= k + Len(parseSurgeryImplant(RowsAfter(uarg.sheet, k), CallInsMap))
    /\ TextDone("parseSurgeryBone") =>
          /\ Len(ures) <= Len(uarg)
          /\ \A k \in 0..Len(uarg) :
                /\ EndsWith(ures, parseSurgeryBone(RowsAfter(uarg, k)))
                /\ Len(ures) <= k + Len(parseSurgeryBone(RowsAfter(uarg, k)))
    /\ TextDone("parseInsuranceData") =>
          \A i \in 1..Len(uarg) :
              InsRowCounts(uarg[i]) =>
                  \E k \in 1..Len(InsGet(ures, InsKeyOf(uarg[i]))) :
                      InsGet(ures, InsKeyOf(uarg[i]))[k] = ToothIdOf(uarg[i])

\* After a row with an unparseable date and a patient info without a digit,
\* which yields a record with that date text and no chart number, the
\* well-formed row has been emitted.
C23_Witness ==
    /\ TextDone("parseSurgeryImplant")
    /\ uarg.sheet = <<RowNoDigit, RowGood>>
    /\ Len(ures) = 2
    /\ ures[1].chartNumber = <<>> /\ ures[1].date = Str(<<"s","o","o","n">>)
    /\ ures[2].chartNumber = Chart12345 /\ Len(ures[2].teethSet) = 2

\* The records of the rows of a sheet, each parsed as a sheet of its own.
ImplantRowByRow(rows, map) ==
    Concat([i \in 1..Len(rows) |-> parseSurgeryImplant(<<rows[i]>>, map)])
BoneRowByRow(rows) == Concat([i \in 1..Len(rows) |-> parseSurgeryBone(<<rows[i]>>)])

NoInsuranceSheet(r) ==
    req[r].insuranceFile = <<>> \/ LacksSheet(req[r].insuranceFile, InsuranceSheetName)

\* The index of the upload is what parseInsuranceData made of its own sheet
\* (nothing before the handler has read the file).
OwnIndex(r) ==
    IF NoInsuranceSheet(r) \/ req[r].pc = "start" \/ req[r].branchName = <<>> THEN <<>>
    ELSE parseInsuranceData(req[r].insuranceFile[1].rows)

\* C25: the InsuranceIndex lives for one upload request only and is not
\* modified by parseSurgeryImplant: at every moment the index of a request
\* is the one built from its own insurance sheet, and a request without an
\* insurance file (or whose insurance sheet is missing) classifies every
\* implant row as isInsurance = false, whatever insurance sheets other
\* requests uploaded.
C25_IndexPerRequest ==
    \A r \in DOMAIN req :
        /\ req[r].insMap = OwnIndex(r)
        /\ NoInsuranceSheet(r) =>
              /\ \A k \in 1..Len(req[r].implantRecords) : ~req[r].implantRecords[k].isInsurance
              /\ \A k \in 1..Len(implant) :
                    (/\ ForeignKeyHolds(implant[k].treatment_record_id)
                     /\ TreatmentOf(implant[k]).branch_name = req[r].branchName)
                    => implant[k].is_insurance = 0

\* The first upload, with its insurance sheet, has saved its implant row as
\* insured; the second, with the same row and no insurance file, has saved
\* it as not insured.
C25_Witness ==
    /\ AllDone
    /\ req["r1"].implantRecords # <<>> /\ req["r1"].implantRecords[1].isInsurance
    /\ req["r2"].insuranceFile = <<>>
    /\ req["r2"].implantRecords # <<>> /\ ~req["r2"].implantRecords[1].isInsurance
    /\ req["r2"].implantRecords[1].chartNumber = req["r1"].implantRecords[1].chartNumber
    /\ req["r2"].response.success
    /\ \E k \in 1..Len(implant) : implant[k].is_insurance = 1
    /\ \E k \in 1..Len(implant) : implant[k].is_insurance = 0

(***************************************************************************)
(* Claims about the matching of implant rows and insurance rows            *)
(***************************************************************************)

\* The number of records the first i rows of the surgery sheet of the call
\* have emitted.
EmittedUpTo(i) == Len(parseSurgeryImplant(SubSeq(uarg.sheet, 1, i), CallInsMap))

\* Row i of the surgery sheet of the call has emitted a record.
EmittedAt(i) == EmittedUpTo(i) > EmittedUpTo(i - 1)

\* The insurance row names the chart number and one of the teeth of a record.
NamesToothOf(insRow, record) ==
    /\ InsRowCounts(insRow)
    /\ FirstDigitRun(CellString(insRow[1])) = record.chartNumber
    /\ \E k \in 1..Len(record.teethSet) : record.teethSet[k] = ToothIdOf(insRow)

IndexTeeth(r, record) ==
    Range(InsGet(req[r].insMap, LookupKey(record.date, record.chartNumber)))

\* The implant row was saved for a tooth of the record of the upload.
RowOfRecord(row, r, record) ==
    /\ ForeignKeyHolds(row.treatment_record_id)
    /\ TreatmentOf(row).branch_name = req[r].branchName
    /\ TreatmentOf(row).chart_number = record.chartNumber
    /\ TreatmentOf(row).tooth_number \in Range(record.teethSet)
    /\ row.date = record.date

\* The number of teeth of the implant records of the upload.
RECURSIVE TeethIn(_)
TeethIn(records) ==
    IF records = <<>> THEN 0 ELSE Len(Head(records).teethSet) + TeethIn(Tail(records))

\* C27: insurance classification is per row, not per tooth: for an
\* ImplantRecord with N teeth of which at least one is in the InsuranceIndex
\* entry of its key, every implant row saveImplantRecords inserts for it
\* carries is_insurance = 1 and the insurance supplier, the rows of the teeth
\* outside the index included, and saveImplantRecords returns having
\* inserted one row for each of the N teeth.
C27_InsuredPerRow ==
    \A r \in DOMAIN req :
        /\ \A i \in 1..Len(req[r].implantRecords) :
              (IndexTeeth(r, req[r].implantRecords[i])
                   \cap Range(req[r].implantRecords[i].teethSet) # {})
              => \A k \in 1..Len(implant) :
                    RowOfRecord(implant[k], r, req[r].implantRecords[i])
                    => /\ implant[k].is_insurance = 1
                       /\ implant[k].supplier = InsuranceSupplier
        /\ req[r].phase = "bone" => req[r].implantCount = TeethIn(req[r].implantRecords)

\* The first upload has saved the rows of teeth 18 and 17 as insured, of
\* which only 18 is in the index.
C27_Witness ==
    /\ AllDone
    /\ Len(req["r1"].implantRecords) = 1
    /\ Len(req["r1"].implantRecords[1].teethSet) = 2
    /\ Cardinality(IndexTeeth("r1", req["r1"].implantRecords[1])) = 1
    /\ req["r1"].implantCount = 2
    /\ \E k \in 1..Len(implant) :
          /\ RowOfRecord(implant[k], "r1", req["r1"].implantRecords[1])
          /\ TreatmentOf(implant[k]).tooth_number
                 \notin IndexTeeth("r1", req["r1"].implantRecords[1])
          /\ implant[k].is_insurance = 1
          /\ implant[k].supplier = InsuranceSupplier
    /\ \E k \in 1..Len(implant) :
          /\ RowOfRecord(implant[k], "r1", req["r1"].implantRecords[1])
          /\ TreatmentOf(implant[k]).tooth_number
                 \in IndexTeeth("r1", req["r1"].implantRecords[1])
          /\ implant[k].is_insurance = 1

\* The implant row and the insurance row have the same patient-info text,
\* which contains a digit, and the same date text.
SamePatientAndDate(row, insRow) ==
    /\ CellString(row[2]) = CellString(insRow[1])
    /\ FirstDigit(CellString(row[2])) # 0
    /\ DateText(row[1]) = DateText(insRow[4])

\* C28: for every patient-info text that contains a digit, the chart number
\* that parseInsuranceData puts in the key (the first run of digits) equals
\* the chartNumber that parsePatientInfo computes for the same text, so an
\* implant row and an insurance row with the same patient-info text, the
\* same date text and a shared tooth are always matched (isInsurance = true).
C28_SameTextMatches ==
    TextDone("parseSurgeryImplant") =>
        \A i \in 1..Len(uarg.sheet) : \A j \in 1..Len(uarg.insSheet) :
            (/\ EmittedAt(i)
             /\ InsRowCounts(uarg.insSheet[j])
             /\ SamePatientAndDate(uarg.sheet[i], uarg.insSheet[j])
             /\ ToothIdOf(uarg.insSheet[j]) \in Range(ures[EmittedUpTo(i)].teethSet))
            => /\ FirstDigitRun(CellString(uarg.insSheet[j][1]))
                      = ures[EmittedUpTo(i)].chartNumber
               /\ ures[EmittedUpTo(i)].isInsurance

(***************************************************************************)
(* Claims about a repeated upload                                          *)
(***************************************************************************)

\* The (chart, tooth) pairs the records of the upload name.
TreatmentKeys(r) ==
    {<<req[r].implantRecords[i].chartNumber, req[r].implantRecords[i].teethSet[t]>> :
        <<i, t>> \in {p \in (1..Len(req[r].implantRecords)) \X (1..MaxTeeth) :
                         p[2] <= Len(req[r].implantRecords[p[1]].teethSet)}}
    \cup
    {<<req[r].boneRecords[i].chartNumber, req[r].boneRecords[i].teethSet[t]>> :
        <<i, t>> \in {p \in (1..Len(req[r].boneRecords)) \X (1..MaxTeeth) :
                         p[2] <= Len(req[r].boneRecords[p[1]].teethSet)}}

\* The second half of the table repeats the first half row by row.
SecondHalfCopies(table) ==
    /\ Len(table) % 2 = 0
    /\ \A k \in 1..(Len(table) \div 2) :
          RowValue(table[k + Len(table) \div 2]) = RowValue(table[k])

\* C29: saving is not idempotent: uploading the same surgery sheet a second
\* time to the same branch inserts no new treatment_records row (the table
\* keeps the one row for each chart and tooth of the first upload), but
\* inserts a further copy of every implant row and every bone_graft row of
\* the first upload.
C29_SecondUploadCopies ==
    "r2" \in DOMAIN req =>
        /\ Len(treatment_records) = Cardinality(TreatmentKeys("r1"))
        /\ lastId.treatment_records = Len(treatment_records)
        /\ req["r2"].pc = "done" =>
              /\ req["r2"].response.success
              /\ Len(implant) = 2 * Cardinality(ImplantSlots("r1"))
              /\ Len(bone_graft) = 2 * Cardinality(BoneSlots("r1"))
              /\ SecondHalfCopies(implant)
              /\ SecondHalfCopies(bone_graft)
              /\ ImplantRowsAsExpected
              /\ BoneRowsAsExpected

\* The second upload of a sheet with implant and bone-graft rows has
\* returned: two treatment_records rows, four implant rows, bone_graft rows
\* in two copies.
C29_Witness ==
    /\ AllDone
    /\ req["r2"].surgeryFile = req["r1"].surgeryFile
    /\ req["r2"].branchName = req["r1"].branchName
    /\ Len(treatment_records) = 2
    /\ Len(implant) = 4
    /\ Len(bone_graft) >= 2
    /\ req["r2"].totalRecords = req["r1"].totalRecords

(***************************************************************************)
(* Claims about findOrCreateTreatmentRecord                                *)
(***************************************************************************)

\* The record and tooth findOrCreateTreatmentRecord was called for.
FindRecord(r) == SaveRecords(req[r])[req[r].ri]
FindTooth(r) == FindRecord(r).teethSet[req[r].ti]

\* The rows of treatment_records with the key of the call.
ExistingRows(r) ==
    {k \in 1..Len(treatment_records) :
        /\ treatment_records[k].branch_name = req[r].branchName
        /\ treatment_records[k].chart_number = FindRecord(r).chartNumber
        /\ treatment_records[k].tooth_number = FindTooth(r)}

\* C30: findOrCreateTreatmentRecord leaves an existing record unchanged: when
\* a treatment_records row with the same (branch_name, chart_number,
\* tooth_number) exists, the SELECT step returns that row's id, the call
\* inserts nothing (it does not go on to the INSERT, the table and its last
\* id stay as they are), and the row's patient_name is not updated even when
\* the caller passes a different patient name.
C30_ExistingRowUnchanged ==
    [][\A r \in Requests :
          (/\ req[r].pc = "find"
           /\ req'[r] # req[r]
           /\ ExistingRows(r) # {})
          => /\ treatment_records' = treatment_records
             /\ lastId' = lastId
             /\ req'[r].pc # "create"
             /\ \E k \in ExistingRows(r) : req'[r].treatmentId = treatment_records[k].id]_vars

\* An upload naming the patient Lee has been given the id of the row that
\* was created with the patient name Kim, and the row still says Kim.
C30_Witness ==
    \E r \in Requests :
        /\ req[r].pc = "insert"
        /\ Len(treatment_records) = 1
        /\ FindRecord(r).patientName = NameLee
        /\ treatment_records[1].id = req[r].treatmentId
        /\ treatment_records[1].patient_name = NameKim
        /\ treatment_records[1].chart_number = FindRecord(r).chartNumber
        /\ treatment_records[1].tooth_number = FindTooth(r)
        /\ treatment_records[1].branch_name = req[r].branchName

====
